---- MODULE Spec2Model ----
(***************************************************************************)
(* A model of the pythonedi X12 codec: EDIGenerator (encode), EDIParser    *)
(* (decode), EDIValidator (validate) and the helpers of utils.py.          *)
(*                                                                         *)
(* Text is a sequence of symbols.  A payload character is a one-character  *)
(* string; a segment id ("ST", "N1") is one symbol of the text, so that    *)
(* ids can key records.  Python values are records [t, s, n, d]:           *)
(*   None      t = "none"                                                  *)
(*   str       t = "str",      s = the characters                          *)
(*   int       t = "int",      n = the integer                             *)
(*   float     t = "float",    n = the value in thousandths                *)
(*   datetime  t = "datetime", d = yyyymmdd, n = seconds since midnight    *)
(***************************************************************************)
EXTENDS Integers, Sequences, FiniteSets, TLC

VARIABLES
    supported_formats, \* the registry: transaction-set or segment id -> schema nodes
    generator,   \* EDIGenerator fields: the delimiters and ts_id
    build_call,  \* the activation of EDIGenerator.build / build_segment
    parser,      \* EDIParser fields: delimiters, edi_format, trans_set, ...
    parse_call,  \* the activation of EDIParser.parse_segments / parse_set_group
    validator,   \* EDIValidator fields: edi_data, edi_format, validation_errors
    scenario     \* which operation the caller runs, and its phase

vars == <<supported_formats, generator, build_call, parser, parse_call, validator, scenario>>

-----------------------------------------------------------------------------
(* Python strings and numbers                                              *)

Digits == <<"0", "1", "2", "3", "4", "5", "6", "7", "8", "9">>

IsDigit(c) == \E i \in 1..10 : Digits[i] = c

DigitVal(c) == (CHOOSE i \in 1..10 : Digits[i] = c) - 1

RECURSIVE Pow10(_)
Pow10(k) == IF k = 0 THEN 1 ELSE 10 * Pow10(k - 1)

RECURSIVE NatToStr(_)
NatToStr(n) == IF n < 10 THEN <<Digits[n + 1]>>
               ELSE Append(NatToStr(n \div 10), Digits[(n % 10) + 1])

IntToStr(n) == IF n < 0 THEN <<"-">> \o NatToStr(0 - n) ELSE NatToStr(n)

RECURSIVE Repeat(_, _)
Repeat(c, k) == IF k <= 0 THEN <<>> ELSE <<c>> \o Repeat(c, k - 1)

\* "{:0Nd}": digits of n, zero-padded on the left to width w
ZeroPad(s, w) == Repeat("0", w - Len(s)) \o s

\* s[:k]
Take(s, k) == SubSeq(s, 1, IF k < Len(s) THEN k ELSE Len(s))

\* s[k:] for a zero-based k
Drop(s, k) == SubSeq(s, k + 1, Len(s))

StartsWith(s, p) == Len(s) >= Len(p) /\ SubSeq(s, 1, Len(p)) = p

\* the first position from start on where d occurs in s, 0 for none
FindFrom(s, d, start) ==
    IF \E i \in start..(Len(s) - Len(d) + 1) : SubSeq(s, i, i + Len(d) - 1) = d
    THEN CHOOSE i \in start..(Len(s) - Len(d) + 1) :
             /\ SubSeq(s, i, i + Len(d) - 1) = d
             /\ \A j \in start..(i - 1) : SubSeq(s, j, j + Len(d) - 1) # d
    ELSE 0

RECURSIVE SplitFrom(_, _, _)

\* the piece that starts at start and ends before the separator at found,
\* and the pieces after it
SplitAt(s, d, start, found) ==
    IF found = 0 THEN <<SubSeq(s, start, Len(s))>>
    ELSE <<SubSeq(s, start, found - 1)>> \o SplitFrom(s, d, found + Len(d))

SplitFrom(s, d, start) == SplitAt(s, d, start, FindFrom(s, d, start))

\* str.split(d) for a non-empty separator d
Split(s, d) == SplitFrom(s, d, 1)

RECURSIVE Join(_, _)
\* d.join(parts)
Join(parts, d) ==
    IF parts = <<>> THEN <<>>
    ELSE IF Len(parts) = 1 THEN parts[1]
    ELSE parts[1] \o d \o Join(Tail(parts), d)

RECURSIVE Remove(_, _)
\* s.replace(c, '') for a one-symbol c
Remove(s, c) ==
    IF s = <<>> THEN <<>>
    ELSE IF Head(s) = c THEN Remove(Tail(s), c)
    ELSE <<Head(s)>> \o Remove(Tail(s), c)

RECURSIVE StripLeft(_)
StripLeft(s) == IF s # <<>> /\ Head(s) = " " THEN StripLeft(Tail(s)) ELSE s

RECURSIVE StripRight(_)
StripRight(s) ==
    IF s # <<>> /\ s[Len(s)] = " " THEN StripRight(SubSeq(s, 1, Len(s) - 1)) ELSE s

\* the whitespace int() and float() ignore around a number
Strip(s) == StripRight(StripLeft(s))

AllDigits(s) == s # <<>> /\ \A i \in 1..Len(s) : IsDigit(s[i])

RECURSIVE DigitsVal(_)
DigitsVal(s) == IF s = <<>> THEN 0
                ELSE 10 * DigitsVal(SubSeq(s, 1, Len(s) - 1)) + DigitVal(s[Len(s)])

-----------------------------------------------------------------------------
(* Python values                                                           *)

NoneV == [t |-> "none", s |-> <<>>, n |-> 0, d |-> 0]
StrV(x) == [t |-> "str", s |-> x, n |-> 0, d |-> 0]
IntV(x) == [t |-> "int", s |-> <<>>, n |-> x, d |-> 0]
FloatV(x) == [t |-> "float", s |-> <<>>, n |-> x, d |-> 0]
DateTimeV(date, secs) == [t |-> "datetime", s |-> <<>>, n |-> secs, d |-> date]

\* a dict keeps its items in insertion order: a sequence of <<key, value>>
DictV(items) == [t |-> "dict", items |-> items]
ListV(l) == [t |-> "list", l |-> l]

IsScalar(v) == v.t \in {"none", "str", "int", "float", "datetime"}

\* key in d
Has(d, key) == \E i \in 1..Len(d.items) : d.items[i][1] = key

\* d[key], for a key of d
Get(d, key) == d.items[CHOOSE i \in 1..Len(d.items) : d.items[i][1] = key][2]

\* d.get(key, None)
GetOrNone(d, key) == IF Has(d, key) THEN Get(d, key) ELSE NoneV

\* d[key] = value
Put(d, key, value) ==
    IF Has(d, key)
    THEN DictV([i \in 1..Len(d.items) |->
                  IF d.items[i][1] = key THEN <<key, value>> ELSE d.items[i]])
    ELSE DictV(Append(d.items, <<key, value>>))

Keys(d) == [i \in 1..Len(d.items) |-> d.items[i][1]]

\* the outcome of a call that either returns v or raises
Ok(x) == [raised |-> FALSE, v |-> x]
Raise == [raised |-> TRUE, v |-> <<>>]

\* float thousandths of a numeric value
Thousandths(v) == IF v.t = "int" THEN v.n * 1000 ELSE v.n

IsNumber(v) == v.t \in {"int", "float"}

RECURSIVE PyEq(_, _)
\* Python ==: an int and a float of the same value are equal, lists are equal
\* element by element, dicts key by key whatever the order of insertion
PyEq(a, b) ==
    IF IsNumber(a) /\ IsNumber(b) THEN Thousandths(a) = Thousandths(b)
    ELSE IF a.t # b.t THEN FALSE
    ELSE IF a.t = "list"
         THEN Len(a.l) = Len(b.l) /\ \A i \in 1..Len(a.l) : PyEq(a.l[i], b.l[i])
    ELSE IF a.t = "dict"
         THEN /\ Len(a.items) = Len(b.items)
              /\ \A i \in 1..Len(a.items) :
                    /\ Has(b, a.items[i][1])
                    /\ PyEq(a.items[i][2], Get(b, a.items[i][1]))
    ELSE a = b

\* Python truthiness (bool(v))
Truthy(v) == CASE v.t = "none" -> FALSE
               [] v.t = "str" -> v.s # <<>>
               [] v.t \in {"int", "float"} -> v.n # 0
               [] v.t = "list" -> v.l # <<>>
               [] v.t = "dict" -> v.items # <<>>
               [] OTHER -> TRUE

\* repr of a non-negative float given in thousandths: "5.0", "0.125", "12.5"
FloatRepr(m) ==
    LET ip == m \div 1000
        fp == m % 1000
        frac == IF fp = 0 THEN <<"0">>
                ELSE IF fp % 100 = 0 THEN NatToStr(fp \div 100)
                ELSE IF fp % 10 = 0 THEN ZeroPad(NatToStr(fp \div 10), 2)
                ELSE ZeroPad(NatToStr(fp), 3)
    IN NatToStr(ip) \o <<".">> \o frac

DateStr8(d) == ZeroPad(NatToStr(d), 8)
TimeHM(secs) == ZeroPad(NatToStr(secs \div 3600), 2) \o ZeroPad(NatToStr((secs \div 60) % 60), 2)

\* str(datetime): "2020-01-01 12:30:00", from the date digits and the seconds
DateTimeStr(ds, secs) ==
    SubSeq(ds, 1, 4) \o <<"-">> \o SubSeq(ds, 5, 6) \o <<"-">>
    \o SubSeq(ds, 7, 8) \o <<" ">>
    \o ZeroPad(NatToStr(secs \div 3600), 2) \o <<":">>
    \o ZeroPad(NatToStr((secs \div 60) % 60), 2) \o <<":">>
    \o ZeroPad(NatToStr(secs % 60), 2)

\* str(v)
PyStr(v) ==
    CASE v.t = "none" -> <<"N", "o", "n", "e">>
      [] v.t = "str" -> v.s
      [] v.t = "int" -> IntToStr(v.n)
      [] v.t = "float" -> FloatRepr(v.n)
      [] OTHER -> DateTimeStr(DateStr8(v.d), v.n)

\* a decimal literal "12", "1.5", ".5", "5." as thousandths, or -1 when float()
\* would raise (at most three fraction digits are representable here)
DecimalOf(ip, fp) ==
    IF ip = <<>> /\ fp = <<>> THEN -1
    ELSE IF ~(ip = <<>> \/ AllDigits(ip)) THEN -1
    ELSE IF ~(fp = <<>> \/ AllDigits(fp)) \/ Len(fp) > 3 THEN -1
    ELSE DigitsVal(ip) * 1000 + DigitsVal(fp) * Pow10(3 - Len(fp))

DecimalOfParts(parts) ==
    IF Len(parts) > 2 THEN -1
    ELSE DecimalOf(parts[1], IF Len(parts) = 2 THEN parts[2] ELSE <<>>)

ParseDecimal(field) == DecimalOfParts(Split(Strip(field), <<".">>))

\* float(v)
ToFloat(v) ==
    CASE v.t \in {"int", "float"} -> Thousandths(v)
      [] v.t = "str" -> ParseDecimal(v.s)
      [] OTHER -> -1

\* round num/den to the nearest integer, ties to even (what "{:.kf}" does on
\* an exactly representable float)
RoundHalfEven(num, den) ==
    LET q == num \div den
        r == num % den
    IN IF 2 * r < den THEN q
       ELSE IF 2 * r > den THEN q + 1
       ELSE IF q % 2 = 0 THEN q ELSE q + 1

\* the digits of q units of 10^-k, with the radix point when k > 0
FixedDigits(q, k) ==
    IF k = 0 THEN NatToStr(q)
    ELSE NatToStr(q \div Pow10(k)) \o <<".">> \o ZeroPad(NatToStr(q % Pow10(k)), k)

\* "{:0{w}.{k}f}".format(m / 1000); beyond three places the thousandths are
\* followed by zeros
FormatFixed(m, w, k) ==
    IF k <= 3 THEN ZeroPad(FixedDigits(RoundHalfEven(m * Pow10(k), 1000), k), w)
    ELSE ZeroPad(FixedDigits(m, 3) \o Repeat("0", k - 3), w)

-----------------------------------------------------------------------------
(* Schema nodes (the JSON of formats/*.json after loading)                 *)

Element(id, req, data_type, min, max) ==
    [type |-> "element", id |-> id, req |-> req, data_type |-> data_type,
     length |-> [min |-> min, max |-> max], data_type_ids |-> {}]

Segment(id, req, max_uses, elements, syntax) ==
    [type |-> "segment", id |-> id, req |-> req, max_uses |-> max_uses,
     elements |-> elements, syntax |-> syntax]

Loop(id, req, repeat, segments) ==
    [type |-> "loop", id |-> id, req |-> req, repeat |-> repeat,
     segments |-> segments]

Composite(id, req, elements) ==
    [type |-> "composite", id |-> id, req |-> req, elements |-> elements]

Rule(rule, criteria) == [rule |-> rule, criteria |-> criteria]

\* data_type.startswith("N")
IsNType(data_type) == data_type \in {"N"} \cup {"N" \o ToString(k) : k \in 0..9}

\* int(data_type[1:]); "N" alone has no digits and makes format() raise
NDecimals(data_type) ==
    IF \E k \in 0..9 : data_type = "N" \o ToString(k)
    THEN CHOOSE k \in 0..9 : data_type = "N" \o ToString(k)
    ELSE -1

\* EDIUtils.element_name: "{}{:02d}".format(seg_id, idx)
ElementName(seg_id, idx) == seg_id \o (IF idx < 10 THEN "0" ELSE "") \o ToString(idx)

\* EDIUtils.loop_name, EDIUtils.set_name and EDIParser.is_list_type
IsListType(seg_id, segment_name) ==
    seg_id = "L_" \o segment_name \/ seg_id = "S_" \o segment_name

-----------------------------------------------------------------------------
(* EDIGenerator.build_element                                              *)

\* the text of the element before padding, or Raise (lines 207-243); text
\* is str(e_data) and number is float(e_data), negative when float() raises
FormatAs(e_format, e_data, text, number) ==
    CASE e_format.data_type = "AN" -> Ok(text)
      [] e_format.data_type = "DT" ->
           IF e_data.t # "datetime" THEN Raise
           ELSE IF e_format.length.max = 8 THEN Ok(DateStr8(e_data.d))
           ELSE IF e_format.length.max = 6 THEN Ok(Drop(DateStr8(e_data.d), 2))
           ELSE Raise
      [] e_format.data_type = "TM" ->
           IF e_format.length.max \in {4, 6, 7, 8}
           THEN IF e_data.t # "datetime" THEN Raise ELSE Ok(TimeHM(e_data.n))
           ELSE Raise
      [] e_format.data_type = "R" ->
           IF number < 0 THEN Raise ELSE Ok(FloatRepr(number))
      [] IsNType(e_format.data_type) ->
           IF number < 0 \/ NDecimals(e_format.data_type) < 0 THEN Raise
           ELSE Ok(FormatFixed(number, e_format.length.min,
                               NDecimals(e_format.data_type)))
      [] e_format.data_type = "ID" -> Ok(text)
      [] e_format.data_type = "" ->
           IF e_format.id = "ISA16" /\ text # <<>> THEN Ok(text) ELSE Raise
      [] OTHER -> Ok(<<>>)

FormatElement(e_format, e_data) ==
    FormatAs(e_format, e_data, PyStr(e_data), ToFloat(e_data))

\* formatted_element[:max] alone, without the padding of line 246
TrimOnly(text, length) == Take(text, length.max)

\* formatted_element += " " * (min - len); formatted_element[:max] (lines 246-247)
PadAndTrim(text, length) ==
    Take(text \o Repeat(" ", length.min - Len(text)), length.max)

PadOrRaise(formatted, length) ==
    IF formatted.raised THEN Raise ELSE Ok(PadAndTrim(formatted.v, length))

BuildElement(e_format, e_data) ==
    IF e_data.t = "none"
    THEN IF e_format.req \in {"O", "C"} THEN Ok(<<>>) ELSE Raise
    ELSE PadOrRaise(FormatElement(e_format, e_data), e_format.length)

-----------------------------------------------------------------------------
(* EDIParser.parse_element                                                 *)

DaysIn(y, m) ==
    IF m \in {4, 6, 9, 11} THEN 30
    ELSE IF m = 2 THEN (IF y % 4 = 0 /\ (y % 100 # 0 \/ y % 400 = 0) THEN 29 ELSE 28)
    ELSE 31

DateOf(y, m, d) ==
    IF y < 1 \/ m < 1 \/ m > 12 \/ d < 1 \/ d > DaysIn(y, m) THEN Raise
    ELSE Ok(DateTimeV(y * 10000 + m * 100 + d, 0))

\* %y: 69-99 are 1969-1999, 00-68 are 2000-2068
Century(yy) == IF yy < 69 THEN 2000 + yy ELSE 1900 + yy

\* datetime.strptime(field, "%Y%m%d") on eight characters, "%y%m%d" on six
ParseDate(field) ==
    IF ~AllDigits(field) THEN Raise
    ELSE IF Len(field) = 8
    THEN DateOf(DigitsVal(SubSeq(field, 1, 4)), DigitsVal(SubSeq(field, 5, 6)),
                DigitsVal(SubSeq(field, 7, 8)))
    ELSE DateOf(Century(DigitsVal(SubSeq(field, 1, 2))), DigitsVal(SubSeq(field, 3, 4)),
                DigitsVal(SubSeq(field, 5, 6)))

TimeOf(h, m, sec) ==
    IF h > 23 \/ m > 59 \/ sec > 61 THEN Raise
    ELSE Ok(DateTimeV(19000101, h * 3600 + m * 60 + sec))

\* datetime.strptime(field, "%H%M") on four characters, "%H%M%S" on six
ParseTime(field) ==
    IF ~AllDigits(field) THEN Raise
    ELSE TimeOf(DigitsVal(SubSeq(field, 1, 2)), DigitsVal(SubSeq(field, 3, 4)),
                IF Len(field) = 6 THEN DigitsVal(SubSeq(field, 5, 6)) ELSE 0)

\* int(digits) or float(digits) / 10 ** k, as a value, or Raise; a float is
\* kept in thousandths, so the digits finer than that are cut
NumberOf(digits, k) ==
    IF ~AllDigits(digits) \/ k < 0 THEN Raise
    ELSE IF k = 0 THEN Ok(IntV(DigitsVal(digits)))
    ELSE IF k <= 3 THEN Ok(FloatV(DigitsVal(digits) * Pow10(3 - k)))
    ELSE Ok(FloatV(DigitsVal(digits) \div Pow10(k - 3)))

RealOf(thousandths) == IF thousandths < 0 THEN Raise ELSE Ok(FloatV(thousandths))

ParseElement(field, element) ==
    CASE element.data_type = "DT" ->
           IF Len(field) \in {6, 8} THEN ParseDate(field)
           ELSE IF field = <<>> THEN Ok(NoneV)
           ELSE Ok(StrV(field))
      [] element.data_type = "TM" ->
           IF Len(field) \in {4, 6} THEN ParseTime(field) ELSE Ok(NoneV)
      [] element.data_type = "N0" ->
           IF field = <<>> THEN Ok(NoneV) ELSE NumberOf(Strip(field), 0)
      [] IsNType(element.data_type) ->
           IF field = <<>> THEN Ok(NoneV)
           ELSE NumberOf(Strip(Remove(field, ".")), NDecimals(element.data_type))
      [] element.data_type = "R" ->
           IF field = <<>> THEN Ok(NoneV) ELSE RealOf(ParseDecimal(field))
      [] element.data_type \in {"AN", "ID"} ->
           IF field = <<>> THEN Ok(NoneV) ELSE Ok(StrV(field))
      [] OTHER -> Ok(StrV(field))

-----------------------------------------------------------------------------
(* EDIValidator.validate_element                                           *)

\* ValidationError(data_type, name, segment, error); the message is kept as
\* its kind
Error(data_type, name, segment, error) ==
    [data_type |-> data_type, name |-> name, segment |-> segment, error |-> error]

If(cond, errs) == IF cond THEN errs ELSE <<>>

ValidateElement(seg_id, element_id, element_value, element_schema) ==
    LET req == element_schema.req
        dt == element_schema.data_type
        min == element_schema.length.min
        max == element_schema.length.max
        data_len == Len(PyStr(element_value))
        E(kind) == <<Error("element", element_id, seg_id, kind)>>
        typed ==
            CASE dt = "DT" ->
                   If(max \notin {6, 8}, E("date length"))
                   \o If(element_value.t # "datetime", E("date type"))
              [] dt = "TM" ->
                   If(max \notin {4, 6, 7, 8}, E("time length"))
                   \o If(element_value.t # "datetime",
                         <<Error("element", element_id, "None", "time type")>>)
              [] dt = "R" -> If(element_value.t # "float", E("decimal type"))
              [] IsNType(dt) -> If(~IsNumber(element_value), E("number type"))
              [] dt = "ID" ->
                   If(element_schema.data_type_ids # {}
                        /\ ~(element_value.t = "str"
                             /\ element_value.s \in element_schema.data_type_ids),
                      E("id value"))
              [] OTHER -> <<>>
        sized ==
            IF dt \in {"DT", "TM"} THEN <<>>
            ELSE IF IsNType(dt) THEN If(data_len > max, E("length"))
            ELSE If(data_len < min \/ data_len > max, E("length"))
    IN IF element_value.t = "none"
       THEN IF req = "M" THEN E("mandatory")
            ELSE If(req \notin {"O", "C"},
                    <<Error("element", element_id, "None", "unknown req")>>)
       ELSE typed \o sized

-----------------------------------------------------------------------------
(* EDIGenerator.build_segment                                              *)

\* a field the constructor does not assign
Unset == <<"unset">>

\* the grave accent character, the default data (repetition) delimiter; the
\* symbol is spelled out because a TLA+ string cannot hold the character
Grave == "GRAVE"

\* EDIGenerator.__init__
NewGenerator ==
    [element_delimiter |-> <<"^">>, segment_delimiter |-> <<"\n">>,
     data_delimiter |-> <<Grave>>, component_element_delimiter |-> Unset,
     ts_id |-> Unset]

\* the generator result of a call: what it returned or that it raised, and
\* the generator fields after it
GOk(x, g) == [raised |-> FALSE, v |-> x, g |-> g]
GRaise(g) == [raised |-> TRUE, v |-> <<>>, g |-> g]

\* self.data_delimiter = str(e_data)[0] (line 238)
SetDataDelimiter(g, text) ==
    IF text # <<>> THEN [g EXCEPT !.data_delimiter = <<text[1]>>] ELSE g

\* the generator after build_element: only ISA16 assigns a field
AfterElement(g, e_format, e_data) ==
    IF e_data.t # "none" /\ e_format.data_type = "" /\ e_format.id = "ISA16"
    THEN SetDataDelimiter(g, PyStr(e_data))
    ELSE g

\* list.append of a value to what the rest of the loop produces
GCons(x, rest) == IF rest.raised THEN rest ELSE GOk(<<x>> \o rest.v, rest.g)

\* the lines of the rest put before the lines already built
GConcatBefore(xs, rest) == IF rest.raised THEN rest ELSE GOk(rest.v \o xs, rest.g)

\* list.extend by what the rest of the loop produces
GConcat(xs, rest) == IF rest.raised THEN rest ELSE GOk(xs \o rest.v, rest.g)

\* the result of build_element as a generator result
ElementResult(r, g, e_format, e_data) ==
    IF r.raised THEN GRaise(g) ELSE GOk(r.v, AfterElement(g, e_format, e_data))

\* self.component_element_delimiter.join(formatted_elements) (line 192); the
\* attribute is never assigned, so reading it raises
JoinComponents(parts) ==
    IF parts.raised THEN parts
    ELSE IF parts.g.component_element_delimiter = Unset THEN GRaise(parts.g)
    ELSE GOk(Join(parts.v, parts.g.component_element_delimiter), parts.g)

RECURSIVE BuildElementList(_, _, _)
RECURSIVE BuildElements(_, _, _)

\* the rest of the zip after its first pair
BuildElementsAfter(first, formats, datas) ==
    IF first.raised THEN first
    ELSE GCons(first.v, BuildElements(first.g, Tail(formats), Tail(datas)))

\* zip(datas, formats) built left to right; the first failure raises
BuildElements(g, formats, datas) ==
    IF formats = <<>> \/ datas = <<>> THEN GOk(<<>>, g)
    ELSE BuildElementsAfter(BuildElementList(g, Head(formats), Head(datas)),
                            formats, datas)

\* build_element_list (lines 184-194)
BuildElementList(g, e_format, e_data) ==
    IF e_format.type = "element"
    THEN IF ~IsScalar(e_data) THEN GRaise(g)
         ELSE ElementResult(BuildElement(e_format, e_data), g, e_format, e_data)
    ELSE IF e_format.type = "composite"
    THEN IF e_data.t # "dict" THEN GRaise(g)
         ELSE IF ~Has(e_data, e_format.id) THEN GRaise(g)
         ELSE IF Get(e_data, e_format.id).t # "list" THEN GRaise(g)
         ELSE JoinComponents(BuildElements(g, e_format.elements,
                                           Get(e_data, e_format.id).l))
    ELSE GRaise(g)

\* the prefix of the criteria the scan visits: it stops (break) at the first
\* index that is out of bounds (lines 138-142, 150-154, 164-168)
RECURSIVE Visited(_, _)
Visited(criteria, len) ==
    IF criteria = <<>> THEN <<>>
    ELSE IF Head(criteria) >= len THEN <<>>
    ELSE <<Head(criteria)>> \o Visited(Tail(criteria), len)

\* output_elements[idx] != "", for a zero-based idx within bounds
Present(output_elements, idx) == output_elements[idx + 1] # <<>>

\* how many of the visited indexes hold a non-empty element
FoundIn(output_elements, visited) ==
    Cardinality({i \in 1..Len(visited) : Present(output_elements, visited[i])})

Found(output_elements, criteria) ==
    FoundIn(output_elements, Visited(criteria, Len(output_elements)))

\* the raise conditions of the three rules, from the counts of the scans:
\* found over the whole criteria, others over criteria[1:]
RuleRaises(rule, output_elements, found, others) ==
    CASE rule.rule = "ATLEASTONE" -> found = 0
      [] rule.rule = "ALLORNONE" -> 0 < found /\ found < Len(rule.criteria)
      [] rule.rule = "IFATLEASTONE" ->
           /\ rule.criteria[1] < Len(output_elements)
           /\ Present(output_elements, rule.criteria[1])
           /\ others = 0
      [] OTHER -> FALSE

\* the rule makes build_segment raise (lines 136-176)
SyntaxRaises(rule, output_elements) ==
    RuleRaises(rule, output_elements, Found(output_elements, rule.criteria),
               Found(output_elements, SubSeq(rule.criteria, 2, Len(rule.criteria))))

\* while output_elements and not output_elements[-1]: drop the last (lines 179-180)
RECURSIVE TrimTrailing(_)
TrimTrailing(output_elements) ==
    IF output_elements # <<>> /\ output_elements[Len(output_elements)] = <<>>
    THEN TrimTrailing(SubSeq(output_elements, 1, Len(output_elements) - 1))
    ELSE output_elements

\* output_elements = [segment["id"]] and the appended elements (line 119)
WithSegmentId(id, built) ==
    IF built.raised THEN built ELSE GOk(<<<<id>>>> \o built.v, built.g)

\* output_elements before the syntax check, or the element failure
OutputElements(g, segment, segment_data) ==
    WithSegmentId(segment.id, BuildElements(g, segment.elements, segment_data))

\* the syntax check, the trimming and the join of build_segment (lines 129-182)
SegmentLine(segment, oe) ==
    IF oe.raised THEN [raised |-> TRUE, why |-> "element", v |-> <<>>, g |-> oe.g]
    ELSE IF \E i \in 1..Len(segment.syntax) : SyntaxRaises(segment.syntax[i], oe.v)
    THEN [raised |-> TRUE, why |-> "syntax", v |-> <<>>, g |-> oe.g]
    ELSE [raised |-> FALSE, why |-> "",
          v |-> Join(TrimTrailing(oe.v), oe.g.element_delimiter), g |-> oe.g]

\* [raised, why, v, g]: the segment line, or the reason build_segment raised
BuildSegment(g, segment, segment_data) ==
    SegmentLine(segment, OutputElements(g, segment, segment_data))

-----------------------------------------------------------------------------
(* EDIGenerator.build_segment_list, build_loop_list                        *)

RECURSIVE BuildEntries(_, _, _)

\* the rest of the entries after the first one is built
BuildEntriesAfter(first, segment, entries) ==
    IF first.raised THEN GRaise(first.g)
    ELSE GCons(first.v, BuildEntries(first.g, segment, Tail(entries)))

\* build_segment on each entry of a repeating segment (lines 109-113)
BuildEntries(g, segment, entries) ==
    IF entries = <<>> THEN GOk(<<>>, g)
    ELSE IF Head(entries).t # "list" THEN GRaise(g)
    ELSE BuildEntriesAfter(BuildSegment(g, segment, Head(entries).l), segment, entries)

\* segment_list.append(self.build_segment(segment, segment_data)) (line 99)
SingleLine(r) == IF r.raised THEN GRaise(r.g) ELSE GOk(<<r.v>>, r.g)

\* the lines of one schema segment; segment_data[0] needs a non-empty list
BuildSegmentList(g, segment, segment_data) ==
    IF segment_data.t # "list" THEN GRaise(g)
    ELSE IF segment_data.l = <<>> THEN GRaise(g)
    ELSE IF segment_data.l[1].t # "list"
    THEN SingleLine(BuildSegment(g, segment, segment_data.l))
    ELSE IF segment.max_uses > -1 /\ Len(segment_data.l) > segment.max_uses
    THEN GRaise(g)
    ELSE BuildEntries(g, segment, segment_data.l)

RECURSIVE BuildLoopList(_, _, _)
RECURSIVE BuildIteration(_, _, _, _)

\* the children after the k-th, once the k-th is built
BuildIterationAfter(first, section, iteration, k) ==
    IF first.raised THEN first
    ELSE GConcat(first.v, BuildIteration(first.g, section, iteration, k + 1))

\* the children of the loop from the k-th on, for one iteration (lines 74-90)
BuildIteration(g, section, iteration, k) ==
    IF k > Len(section.segments) THEN GOk(<<>>, g)
    ELSE IF iteration.t # "dict" THEN GRaise(g)
    ELSE IF ~Has(iteration, section.segments[k].id)
    THEN IF section.req \in {"O", "C"}
         THEN BuildIteration(g, section, iteration, k + 1)
         ELSE GRaise(g)
    ELSE BuildIterationAfter(
             IF section.segments[k].type = "loop"
             THEN BuildLoopList(g, section.segments[k], iteration)
             ELSE BuildSegmentList(g, section.segments[k],
                                   Get(iteration, section.segments[k].id)),
             section, iteration, k)

RECURSIVE BuildIterations(_, _, _)

\* the iterations after the first, once the first is built
BuildIterationsAfter(first, section, iterations) ==
    IF first.raised THEN first
    ELSE GConcat(first.v, BuildIterations(first.g, section, Tail(iterations)))

\* for iteration in data[section["id"]] (line 73)
BuildIterations(g, section, iterations) ==
    IF iterations = <<>> THEN GOk(<<>>, g)
    ELSE BuildIterationsAfter(BuildIteration(g, section, Head(iterations), 1),
                              section, iterations)

\* build_loop_list (lines 57-92)
BuildLoopList(g, section, data) ==
    IF ~Has(data, section.id)
    THEN IF \E i \in 1..Len(section.segments) : section.segments[i].req = "M"
         THEN GRaise(g)
         ELSE GOk(<<>>, g)
    ELSE IF Len(section.segments) > section.repeat THEN GRaise(g)
    ELSE IF Get(data, section.id).t # "list" THEN GRaise(g)
    ELSE BuildIterations(g, section, Get(data, section.id).l)

\* one pass of the loop of build over a schema node (lines 37-52)
BuildSectionLines(g, section, data) ==
    IF section.type = "segment"
    THEN IF ~Has(data, section.id)
         THEN IF section.req \in {"O", "C"} THEN GOk(<<>>, g) ELSE GRaise(g)
         ELSE BuildSegmentList(g, section, Get(data, section.id))
    ELSE IF section.type = "loop" THEN BuildLoopList(g, section, data)
    ELSE GOk(<<>>, g)

-----------------------------------------------------------------------------
(* EDIValidator.validate_single_segment                                    *)

RuleKinds == {"ATLEASTONE", "ALLORNONE", "IFATLEASTONE"}

\* seg_data.get(element_name(seg_id, idx), None) is truthy
Given(seg_id, seg_data, idx) == Truthy(GetOrNone(seg_data, ElementName(seg_id, idx)))

GivenCount(seg_id, seg_data, criteria) ==
    Cardinality({i \in 1..Len(criteria) : Given(seg_id, seg_data, criteria[i])})

\* the error conditions of the three rules, from the counts: given over the
\* whole criteria, others over criteria[1:]
RuleFails(rule, first, given, others) ==
    CASE rule.rule = "ATLEASTONE" -> given = 0
      [] rule.rule = "ALLORNONE" -> 0 < given /\ given < Len(rule.criteria)
      [] rule.rule = "IFATLEASTONE" -> first /\ others = 0
      [] OTHER -> FALSE

\* the rule makes validate_single_segment add an error (lines 121-152)
SyntaxError(rule, seg_id, seg_data) ==
    RuleFails(rule, Given(seg_id, seg_data, rule.criteria[1]),
              GivenCount(seg_id, seg_data, rule.criteria),
              GivenCount(seg_id, seg_data, SubSeq(rule.criteria, 2, Len(rule.criteria))))

RECURSIVE SyntaxErrors(_, _, _)
SyntaxErrors(rules, seg_id, seg_data) ==
    IF rules = <<>> THEN <<>>
    ELSE If(SyntaxError(Head(rules), seg_id, seg_data),
            <<Error("segment", seg_id, seg_id, Head(rules).rule)>>)
         \o SyntaxErrors(Tail(rules), seg_id, seg_data)

\* len(v) of a dict, a list or a str
PyLen(v) == CASE v.t = "dict" -> Len(v.items)
              [] v.t = "list" -> Len(v.l)
              [] OTHER -> Len(v.s)

\* num_elements > num_schema_elements (lines 112-116)
MoreElements(seg_id, seg_data, seg_schema) ==
    If(PyLen(seg_data) > Len(seg_schema.elements),
       <<Error("segment", seg_id, seg_id, "more elements")>>)

\* a rule of a known kind calls seg_data.get
CallsGet(rules) == \E i \in 1..Len(rules) : rules[i].rule \in RuleKinds

\* the errors of one segment; len() of a number, of a datetime or of None
\* raises, and so does .get of a list or a str
ValidateSingleSegment(seg_id, seg_data, seg_schema) ==
    IF seg_data.t = "dict"
    THEN Ok(MoreElements(seg_id, seg_data, seg_schema)
            \o SyntaxErrors(seg_schema.syntax, seg_id, seg_data))
    ELSE IF seg_data.t \in {"list", "str"} /\ ~CallsGet(seg_schema.syntax)
    THEN Ok(MoreElements(seg_id, seg_data, seg_schema))
    ELSE Raise

-----------------------------------------------------------------------------
(* EDIValidator.validate                                                   *)

REQUIRED_SEGMENTS == <<"ISA", "ST", "SE", "IEA">>

\* None as the segment of an error
NoSegment == "None"

\* one call after another: the first exception ends both
VThen(first, rest) ==
    IF first.raised THEN first
    ELSE IF rest.raised THEN rest
    ELSE Ok(first.v \o rest.v)

\* add_error has no parameter named type: the calls of lines 44 and 94 raise
\* TypeError
AddErrorByType == Raise

\* the position in schemas of the first schema of the id, 0 when find_schema
\* returns None
SchemaIndex(name, schemas) ==
    IF \E i \in 1..Len(schemas) : schemas[i].id = name
    THEN CHOOSE i \in 1..Len(schemas) :
             /\ schemas[i].id = name
             /\ \A j \in 1..(i - 1) : schemas[j].id # name
    ELSE 0

\* get_child_schemas (lines 221-225); None (an element has neither key) and
\* the empty list are both <<>>
GetChildSchemas(schema) ==
    IF schema.type = "loop" THEN schema.segments
    ELSE IF schema.type \in {"segment", "composite"} THEN schema.elements
    ELSE <<>>

\* validate_required (lines 83-86)
RECURSIVE ValidateRequired(_, _)
ValidateRequired(children, schemas) ==
    IF schemas = <<>> THEN <<>>
    ELSE If(/\ Head(schemas).type \in {"segment", "loop"}
            /\ Head(schemas).req = "M"
            /\ ~Has(children, Head(schemas).id),
            <<Error(Head(schemas).type, Head(schemas).id, NoSegment, "missing required")>>)
         \o ValidateRequired(children, Tail(schemas))

\* validate_loop (lines 88-94)
ValidateLoop(loop_id, loop_data, loop_schema) ==
    IF loop_schema.repeat > -1 /\ PyLen(loop_data) > loop_schema.repeat
    THEN AddErrorByType
    ELSE Ok(<<>>)

\* for segment in seg_data: validate_single_segment (lines 106-107)
RECURSIVE ValidateEntries(_, _, _)
ValidateEntries(seg_id, entries, seg_schema) ==
    IF entries = <<>> THEN Ok(<<>>)
    ELSE VThen(ValidateSingleSegment(seg_id, Head(entries), seg_schema),
               ValidateEntries(seg_id, Tail(entries), seg_schema))

\* validate_segment (lines 96-109)
ValidateSegment(seg_id, seg_data, seg_schema) ==
    IF seg_data.t = "list"
    THEN VThen(Ok(If(seg_schema.max_uses > -1 /\ Len(seg_data.l) > seg_schema.max_uses,
                     <<Error("segment", seg_id, seg_id, "segment repeats")>>)),
               ValidateEntries(seg_id, seg_data.l, seg_schema))
    ELSE ValidateSingleSegment(seg_id, seg_data, seg_schema)

\* the check of a dict or list child by the type of its schema (lines 55-60)
ValidateNode(name, data, child_schema) ==
    IF child_schema.type = "segment" THEN ValidateSegment(name, data, child_schema)
    ELSE IF child_schema.type = "loop" THEN ValidateLoop(name, data, child_schema)
    ELSE Ok(<<Error(child_schema.type, name, NoSegment, "unknown type")>>)

\* validate_element with the schema find_schema found; with None the
\* subscript of the schema raises
ValidateComponent(parent, comp_name, comp_data, index, comp_schemas) ==
    IF index = 0 THEN Raise
    ELSE Ok(ValidateElement(parent, comp_name, comp_data, comp_schemas[index]))

\* for comp_name, comp_data in data.items() (lines 69-70)
RECURSIVE ValidateComponents(_, _, _)
ValidateComponents(parent, items, comp_schemas) ==
    IF items = <<>> THEN Ok(<<>>)
    ELSE VThen(ValidateComponent(parent, Head(items)[1], Head(items)[2],
                                 SchemaIndex(Head(items)[1], comp_schemas),
                                 comp_schemas),
               ValidateComponents(parent, Tail(items), comp_schemas))

RECURSIVE ValidateChildren(_, _, _)

\* the body of the loop over children.items() for a child that has a schema
\* (lines 52-72)
ValidateWith(parent, name, data, child_schema) ==
    IF data.t \in {"dict", "list"} /\ child_schema.type # "composite"
    THEN VThen(ValidateNode(name, data, child_schema),
               ValidateChildren(name, data, GetChildSchemas(child_schema)))
    ELSE IF child_schema.type = "element"
    THEN Ok(ValidateElement(parent, name, data, child_schema))
    ELSE IF child_schema.type = "composite"
    THEN IF data.t # "dict" THEN Raise
         ELSE ValidateComponents(parent, data.items, GetChildSchemas(child_schema))
    ELSE Ok(If(Truthy(data),
               <<Error(child_schema.type, name, NoSegment, "unexpected type")>>))

\* one child of children.items() (lines 49-74)
ValidateChild(parent, name, data, index, schemas) ==
    IF index = 0 THEN Ok(<<Error("str", name, NoSegment, "unexpected child")>>)
    ELSE ValidateWith(parent, name, data, schemas[index])

RECURSIVE ValidateItems(_, _, _)
ValidateItems(parent, items, schemas) ==
    IF items = <<>> THEN Ok(<<>>)
    ELSE VThen(ValidateChild(parent, Head(items)[1], Head(items)[2],
                             SchemaIndex(Head(items)[1], schemas), schemas),
               ValidateItems(parent, Tail(items), schemas))

\* for each in children: validate_children (lines 78-79)
RECURSIVE ValidateEach(_, _, _)
ValidateEach(parent, children, schemas) ==
    IF children = <<>> THEN Ok(<<>>)
    ELSE VThen(ValidateChildren(parent, Head(children), schemas),
               ValidateEach(parent, Tail(children), schemas))

\* validate_children (lines 42-81)
ValidateChildren(parent, children, schemas) ==
    IF schemas = <<>> THEN AddErrorByType
    ELSE IF children.t = "dict"
    THEN VThen(Ok(ValidateRequired(children, schemas)),
               ValidateItems(parent, children.items, schemas))
    ELSE IF children.t = "list" THEN ValidateEach(parent, children.l, schemas)
    ELSE Ok(<<Error(children.t, "unknown", NoSegment, "children type")>>)

\* the loop over REQUIRED_SEGMENTS (lines 34-36)
RECURSIVE RequiredSegments(_, _)
RequiredSegments(edi_data, required) ==
    IF required = <<>> THEN <<>>
    ELSE If(~Has(edi_data, Head(required)),
            <<Error("segment", Head(required), Head(required), "required segment")>>)
         \o RequiredSegments(edi_data, Tail(required))

\* validate (lines 29-40); .keys() of a value that is no dict raises
Validate(edi_data, edi_format) ==
    IF edi_data.t # "dict" THEN Raise
    ELSE VThen(Ok(RequiredSegments(edi_data, REQUIRED_SEGMENTS)),
               ValidateChildren(NoSegment, edi_data, edi_format))

-----------------------------------------------------------------------------
(* EDIConverter.to_element_dict                                            *)

\* the TypeError of a conversion, as a value
RaisedV == [t |-> "raised"]

\* a dict of converted values, unless a conversion raised
DictOf(out) ==
    IF \E i \in 1..Len(out) : out[i][2] = RaisedV THEN RaisedV ELSE DictV(out)

\* a list of converted values, unless a conversion raised
ListOf(out) ==
    IF \E i \in 1..Len(out) : out[i] = RaisedV THEN RaisedV ELSE ListV(out)

RECURSIVE ToElementDict(_, _)
ToElementDict(input_data, name) ==
    IF input_data.t = "dict"
    THEN DictOf([i \in 1..Len(input_data.items) |->
                   <<input_data.items[i][1],
                     ToElementDict(input_data.items[i][2], input_data.items[i][1])>>])
    ELSE IF input_data.t = "list"
    THEN IF input_data.l = <<>> THEN ListV(<<>>)
         ELSE IF input_data.l[1].t \in {"list", "dict"}
         THEN ListOf([i \in 1..Len(input_data.l) |->
                        ToElementDict(input_data.l[i], name)])
         ELSE DictV([i \in 1..Len(input_data.l) |->
                       <<ElementName(name, i), input_data.l[i]>>])
    ELSE RaisedV

-----------------------------------------------------------------------------
(* EDIParser.parse_isa_header                                              *)

\* the characters of a text as one string: what keys a dict or names a
\* schema node
RECURSIVE SymbolsToStr(_)
SymbolsToStr(text) ==
    IF text = <<>> THEN "" ELSE Head(text) \o SymbolsToStr(Tail(text))

\* None as the value of edi_format
NoFormat == <<>>

\* group_count: unassigned, or the count a GE segment gave
NoCount == [assigned |-> FALSE, n |-> 0]
Count(n) == [assigned |-> TRUE, n |-> n]

\* EDIParser.__init__ (lines 12-24) with the default delimiters; key is the
\* edi_format argument, "" for None.  Nothing assigns trans_set_specified,
\* trans_set, version, component_element_delimiter, groups_defined or
\* group_count here.
NewParser(key) ==
    [element_delimiter |-> <<"^">>, segment_delimiter |-> <<"\n">>,
     data_delimiter |-> <<Grave>>, component_element_delimiter |-> Unset,
     version |-> Unset,
     edi_format |-> IF key = "" THEN NoFormat ELSE supported_formats[key],
     trans_set |-> Unset, trans_set_specified |-> "unset",
     groups_defined |-> "unset", group_count |-> NoCount]

\* the parser result of a call: whether it raised, and the parser fields
\* after it
POk(p) == [raised |-> FALSE, p |-> p]
PRaise(p) == [raised |-> TRUE, p |-> p]

IsCrLf(c) == c \in {"\r", "\n"}

\* the segment delimiter read from the field after ISA16 (lines 52-59)
SegmentDelimiterFrom(p, last) ==
    IF Len(last) >= 2
    THEN [p EXCEPT !.segment_delimiter =
                       <<last[2]>> \o SelectSeq(SubSeq(last, 3, IF Len(last) < 4
                                                                 THEN Len(last) ELSE 4),
                                                IsCrLf)]
    ELSE p

\* index == 11 (lines 39-40)
WithEleven(p, fields) ==
    IF Len(fields) > 11 THEN [p EXCEPT !.data_delimiter = fields[12]] ELSE p

\* index == 12 (lines 41-42)
WithTwelve(p, fields) ==
    IF Len(fields) > 12 THEN [p EXCEPT !.version = fields[13]] ELSE p

\* index == 16 (lines 45-59)
WithSixteen(p, fields) ==
    IF Len(fields) > 16
    THEN SegmentDelimiterFrom(
             [p EXCEPT !.component_element_delimiter = Take(fields[17], 1)],
             fields[17])
    ELSE p

\* parse_isa_header (lines 26-61); the id ISA is one symbol, so data[3:4] is
\* the symbol after it, and split('') raises
ParseIsaHeader(p, data) ==
    IF ~StartsWith(data, <<"ISA">>) THEN PRaise(p)
    ELSE IF Len(data) < 2 THEN PRaise([p EXCEPT !.element_delimiter = <<>>])
    ELSE POk(WithSixteen(WithTwelve(WithEleven(
                 [p EXCEPT !.element_delimiter = <<data[2]>>],
                 Split(data, <<data[2]>>)), Split(data, <<data[2]>>)),
                 Split(data, <<data[2]>>)))

-----------------------------------------------------------------------------
(* EDIParser.parse_segment, parse_repeating_segment, parse_loop            *)

\* segment.split(self.element_delimiter)[0]
SegmentName(p, segment) == SymbolsToStr(Split(segment, p.element_delimiter)[1])

\* an item of a dict comprehension before the items of the rest of the zip
ItemThen(key, value, rest) ==
    IF value.raised \/ rest.raised THEN Raise
    ELSE Ok(<<<<key, value.v>>>> \o rest.v)

\* the dict of the items, unless building one of them raised
AsDict(items) == IF items.raised THEN Raise ELSE Ok(DictV(items.v))

\* zip(field.split(delimiter), element['elements']) (line 254)
RECURSIVE ComponentItems(_, _)
ComponentItems(fields, elements) ==
    IF fields = <<>> \/ elements = <<>> THEN Ok(<<>>)
    ELSE ItemThen(Head(elements).id, ParseElement(Head(fields), Head(elements)),
                  ComponentItems(Tail(fields), Tail(elements)))

\* the value of one field (lines 250-256); component_element_delimiter is
\* assigned by parse_isa_header alone
ParseField(p, field, element) ==
    IF element.type = "element" THEN ParseElement(field, element)
    ELSE IF element.type = "composite"
    THEN IF p.component_element_delimiter \in {Unset, <<>>} THEN Raise
         ELSE AsDict(ComponentItems(Split(field, p.component_element_delimiter),
                                    element.elements))
    ELSE Raise

\* zip(fields[1:], segment_format["elements"]) (line 248)
RECURSIVE FieldItems(_, _, _)
FieldItems(p, fields, elements) ==
    IF fields = <<>> \/ elements = <<>> THEN Ok(<<>>)
    ELSE ItemThen(Head(elements).id, ParseField(p, Head(fields), Head(elements)),
                  FieldItems(p, Tail(fields), Tail(elements)))

\* parse_segment on the split fields (lines 238-258)
ParseSegmentFields(p, fields, segment_format) ==
    IF SymbolsToStr(fields[1]) # segment_format.id THEN Raise
    ELSE IF Len(fields) - 1 > Len(segment_format.elements) THEN Raise
    ELSE AsDict(FieldItems(p, Tail(fields), segment_format.elements))

\* parse_segment (lines 235-258)
ParseSegment(p, segment, segment_format) ==
    ParseSegmentFields(p, Split(segment, p.element_delimiter), segment_format)

\* what parse_repeating_segment and parse_loop return: the list and the
\* remaining segments
LOk(v, rest) == [raised |-> FALSE, v |-> v, rest |-> rest]
LRaise == [raised |-> TRUE, v |-> <<>>, rest |-> <<>>]

\* seg_list.append of a parsed segment before the rest of the while loop
LCons(first, more) ==
    IF first.raised \/ more.raised THEN LRaise
    ELSE LOk(<<first.v>> \o more.v, more.rest)

\* parse_repeating_segment (lines 294-306)
RECURSIVE ParseRepeatingSegment(_, _, _)
ParseRepeatingSegment(p, edi_segments, segment_format) ==
    IF edi_segments = <<>> THEN LOk(<<>>, <<>>)
    ELSE IF SegmentName(p, Head(edi_segments)) # segment_format.id
    THEN LOk(<<>>, edi_segments)
    ELSE LCons(ParseSegment(p, Head(edi_segments), segment_format),
               ParseRepeatingSegment(p, Tail(edi_segments), segment_format))

\* the variables of the search for a format: segment_name, segment_obj and
\* edi_segments
Search(name, obj, rest) == [raised |-> FALSE, name |-> name, obj |-> obj, rest |-> rest]
SearchRaise == [raised |-> TRUE, name |-> "", obj |-> NoneV, rest |-> <<>>]

\* Found a segment (lines 321-324, 194-198)
FoundSegment(s, r) ==
    IF r.raised THEN SearchRaise ELSE Search(s.name, r.v, Tail(s.rest))

\* Found a repeating segment (lines 326-328, 200-203)
FoundRepeating(s, r) ==
    IF r.raised THEN SearchRaise ELSE Search(s.name, ListV(r.v), r.rest)

\* Found a loop (lines 329-332, 204-208)
FoundLoop(s, id, r) ==
    IF r.raised THEN SearchRaise ELSE Search(id, ListV(r.v), r.rest)

RECURSIVE ParseLoop(_, _, _)

\* one seg_format of the search, on the variables the earlier ones left
TryFormat(p, segment, s, seg_format) ==
    IF s.raised THEN s
    ELSE IF seg_format.id = s.name /\ seg_format.max_uses = 1
    THEN FoundSegment(s, ParseSegment(p, segment, seg_format))
    ELSE IF seg_format.id = s.name
            /\ (seg_format.max_uses = -1 \/ seg_format.max_uses > 1)
    THEN FoundRepeating(s, ParseRepeatingSegment(p, s.rest, seg_format))
    ELSE IF IsListType(seg_format.id, s.name)
    THEN FoundLoop(s, seg_format.id, ParseLoop(p, s.rest, seg_format))
    ELSE s

\* for seg_format in loop_format["segments"], without a break (lines 319-332)
RECURSIVE TryFormats(_, _, _, _)
TryFormats(p, segment, s, formats) ==
    IF formats = <<>> THEN s
    ELSE TryFormats(p, segment, TryFormat(p, segment, s, Head(formats)), Tail(formats))

\* if loop_dict != {}: loop_list.append(loop_dict.copy()) (lines 342-344)
LoopEnd(loop_list, loop_dict, edi_segments) ==
    LOk(IF loop_dict.items # <<>> THEN Append(loop_list, loop_dict) ELSE loop_list,
        edi_segments)

RECURSIVE LoopWhile(_, _, _, _, _)

\* the end of one pass of the while loop of parse_loop (lines 334-341)
LoopAfter(p, loop_format, edi_segments, loop_list, loop_dict, s) ==
    IF s.raised THEN LRaise
    ELSE IF s.obj.t = "none" THEN LoopEnd(loop_list, loop_dict, edi_segments)
    ELSE IF s.name = loop_format.segments[1].id /\ loop_dict.items # <<>>
    THEN LoopWhile(p, loop_format, s.rest, Append(loop_list, loop_dict),
                   Put(DictV(<<>>), s.name, s.obj))
    ELSE LoopWhile(p, loop_format, s.rest, loop_list, Put(loop_dict, s.name, s.obj))

\* while len(edi_segments) > 0 (lines 313-341)
LoopWhile(p, loop_format, edi_segments, loop_list, loop_dict) ==
    IF edi_segments = <<>> THEN LoopEnd(loop_list, loop_dict, edi_segments)
    ELSE LoopAfter(p, loop_format, edi_segments, loop_list, loop_dict,
                   TryFormats(p, Head(edi_segments),
                              Search(SegmentName(p, Head(edi_segments)), NoneV,
                                     edi_segments),
                              loop_format.segments))

\* parse_loop (lines 308-344)
ParseLoop(p, edi_segments, loop_format) ==
    LoopWhile(p, loop_format, edi_segments, <<>>, DictV(<<>>))

-----------------------------------------------------------------------------
(* EDIParser.parse_segments                                                *)

\* the names of the segments: the keys of edi_segment_map (line 64)
SegmentNames(p, edi_segments) ==
    [i \in 1..Len(edi_segments) |-> SegmentName(p, edi_segments[i])]

\* the position of the segment edi_segment_map keeps for the name (the last
\* one), 0 when it has none
LastNamed(names, name) ==
    IF \E i \in 1..Len(names) : names[i] = name
    THEN CHOOSE i \in 1..Len(names) :
             names[i] = name /\ \A j \in (i + 1)..Len(names) : names[j] # name
    ELSE 0

\* self.trans_set = st.split(self.element_delimiter)[1] (line 77)
SetTransSet(p, fields) ==
    IF Len(fields) < 2 THEN PRaise(p) ELSE POk([p EXCEPT !.trans_set = fields[2]])

\* parse_st_header (lines 69-77); st is the position of the ST segment.
\* Reading trans_set_specified raises AttributeError while it is unset.
ParseStHeader(p, edi_segments, st) ==
    IF st = 0 THEN PRaise(p)
    ELSE IF p.trans_set_specified = "unset" THEN PRaise(p)
    ELSE IF p.trans_set_specified = "true" THEN POk(p)
    ELSE SetTransSet(p, Split(edi_segments[st], p.element_delimiter))

\* get_segment_format and the test of verify_ending_segments (lines 79-95)
EndingSegmentFound(names, seg_id) ==
    /\ seg_id \in DOMAIN supported_formats
    /\ supported_formats[seg_id] # <<>>
    /\ \E i \in 1..Len(names) : names[i] = supported_formats[seg_id][1].id

\* verify_ending_segments (lines 79-84)
VerifyEndingSegments(r, names) ==
    IF r.raised THEN r
    ELSE IF EndingSegmentFound(names, "IEA") /\ EndingSegmentFound(names, "SE") THEN r
    ELSE PRaise(r.p)

\* parse_required_segments (lines 63-67)
RequiredSegmentsOf(p, edi_segments, names) ==
    VerifyEndingSegments(ParseStHeader(p, edi_segments, LastNamed(names, "ST")), names)

ParseRequiredSegments(p, edi_segments) ==
    RequiredSegmentsOf(p, edi_segments, SegmentNames(p, edi_segments))

\* the format the walk uses (lines 174-178); reading trans_set raises
\* AttributeError while it is unset
ResolveFormat(r) ==
    IF r.raised THEN r
    ELSE IF r.p.edi_format # NoFormat THEN r
    ELSE IF r.p.trans_set = Unset THEN PRaise(r.p)
    ELSE IF SymbolsToStr(r.p.trans_set) \notin DOMAIN supported_formats THEN PRaise(r.p)
    ELSE POk([r.p EXCEPT !.edi_format = supported_formats[SymbolsToStr(r.p.trans_set)]])

\* the variables of the walk: edi_segments, found_segments, to_return
NewWalk(edi_segments) ==
    [edi_segments |-> edi_segments, found_segments |-> <<>>, to_return |-> DictV(<<>>)]

\* the first seg_format the for loop stops at (lines 192-208), 0 for none
Matches(seg_format, name) ==
    \/ /\ seg_format.id = name
       /\ (seg_format.max_uses = 1 \/ seg_format.max_uses = -1 \/ seg_format.max_uses > 1)
    \/ IsListType(seg_format.id, name)

FirstMatch(edi_format, name) ==
    IF \E i \in 1..Len(edi_format) : Matches(edi_format[i], name)
    THEN CHOOSE i \in 1..Len(edi_format) :
             /\ Matches(edi_format[i], name)
             /\ \A j \in 1..(i - 1) : ~Matches(edi_format[j], name)
    ELSE 0

\* [ to_return[segment_name] ] when it is a dict (lines 218-219)
AsList(v) == IF v.t = "dict" THEN ListV(<<v>>) ELSE v

\* extend by a list, append anything else (lines 221-224)
Extend(list, obj) ==
    IF obj.t = "list" THEN ListV(list.l \o obj.l) ELSE ListV(Append(list.l, obj))

\* the store that lists the name at every segment (as lines 229-230 would)
StoreAlways(w, s) ==
    IF s.raised THEN Raise
    ELSE Ok([edi_segments |-> s.rest,
             found_segments |-> Append(w.found_segments, s.name),
             to_return |-> Put(w.to_return, s.name, s.obj)])

\* lines 217-227
Store(w, s) ==
    IF s.raised THEN Raise
    ELSE IF Has(w.to_return, s.name)
    THEN Ok([edi_segments |-> s.rest,
             found_segments |-> w.found_segments,
             to_return |-> Put(w.to_return, s.name,
                               Extend(AsList(Get(w.to_return, s.name)), s.obj))])
    ELSE Ok([edi_segments |-> s.rest,
             found_segments |-> Append(w.found_segments, s.name),
             to_return |-> Put(w.to_return, s.name, s.obj)])

\* Skipping segment (lines 185-187, 210-213)
Skip(w) == Ok([w EXCEPT !.edi_segments = Tail(@)])

\* the pass of the while loop for a segment whose first matching format is
\* at index
WalkWith(p, w, name, index) ==
    IF index = 0 THEN Skip(w)
    ELSE Store(w, TryFormat(p, Head(w.edi_segments), Search(name, NoneV, w.edi_segments),
                            p.edi_format[index]))

\* one pass of the while loop of parse_segments (lines 183-227)
WalkNamed(p, w, name) == WalkWith(p, w, name, FirstMatch(p.edi_format, name))

WalkStep(p, w) ==
    IF Head(w.edi_segments) = <<>> THEN Skip(w)
    ELSE WalkNamed(p, w, SegmentName(p, Head(w.edi_segments)))

RECURSIVE Walk(_, _)

WalkOn(p, r) == IF r.raised THEN r ELSE Walk(p, r.v)

\* the while loop of parse_segments to its end (lines 183-233)
Walk(p, w) == IF w.edi_segments = <<>> THEN Ok(w) ELSE WalkOn(p, WalkStep(p, w))

\* what parse_segments returns or that it raised, and the parser after it
Parsed(r, p) == [raised |-> r.raised, v |-> r.v, p |-> p]

ParseSegmentsWith(r, edi_segments) ==
    IF r.raised THEN Parsed(Raise, r.p)
    ELSE Parsed(Walk(r.p, NewWalk(edi_segments)), r.p)

\* parse_segments (lines 163-233)
ParseSegments(p, edi_segments) ==
    ParseSegmentsWith(ResolveFormat(ParseRequiredSegments(p, edi_segments)), edi_segments)

\* parse (lines 158-161)
ParseAfterHeader(r, data) ==
    IF r.raised THEN Parsed(Raise, r.p)
    ELSE ParseSegments(r.p, Split(data, r.p.segment_delimiter))

Parse(p, data) == ParseAfterHeader(ParseIsaHeader(p, data), data)

-----------------------------------------------------------------------------
(* Bounds and the states of objects no call is using                       *)

\* the elements of the segment the syntax rules are tried on
NumElements == 3

\* the longest criteria list of a syntax rule
MaxCriteria == 3

Idle == [status |-> "idle"]

NewValidator == [status |-> "idle", edi_data |-> NoneV, validation_errors |-> <<>>]

-----------------------------------------------------------------------------
(* Specification SpecSyntax: build_segment and validate_single_segment on  *)
(* one segment with one syntax rule                                        *)

\* criteria lists: one-based element indexes, each at most once, in any order
CriteriaLists ==
    {c \in UNION {[1..k -> 1..NumElements] : k \in 1..MaxCriteria} :
        \A i, j \in 1..Len(c) : i # j => c[i] # c[j]}

\* the element values a caller supplies: null, a string, the number zero
SyntaxValues == {NoneV, StrV(<<"A">>), IntV(0)}

SyntaxDatas == UNION {[1..k -> SyntaxValues] : k \in 1..NumElements}

\* XYZ: optional elements, the second numeric
SyntaxSegment(rule) ==
    Segment("XYZ", "O", 1,
            [i \in 1..NumElements |->
               Element(ElementName("XYZ", i), "O",
                       IF i = 2 THEN "N0" ELSE "AN", 1, 3)],
            <<rule>>)

SyntaxInit ==
    \E kind \in RuleKinds, criteria \in CriteriaLists, data \in SyntaxDatas :
        /\ supported_formats = <<>>
        /\ generator = NewGenerator
        /\ build_call = [status |-> "ready",
                         segment |-> SyntaxSegment(Rule(kind, criteria)),
                         segment_data |-> data,
                         why |-> "", output |-> <<>>]
        /\ parser = Idle
        /\ parse_call = Idle
        /\ validator = NewValidator
        /\ scenario = [op |-> "segment"]

\* the call ends with the result r
SegmentCallEnds(r) ==
    /\ build_call' = [build_call EXCEPT
                        !.status = IF r.raised THEN "raised" ELSE "returned",
                        !.why = r.why, !.output = r.v]
    /\ generator' = r.g

\* EDIGenerator.build_segment(segment, segment_data)
CallBuildSegment ==
    /\ scenario.op = "segment"
    /\ build_call.status = "ready"
    /\ SegmentCallEnds(BuildSegment(generator, build_call.segment,
                                    build_call.segment_data))
    /\ UNCHANGED <<supported_formats, parser, parse_call, validator, scenario>>

\* the map-shaped form of the segment: element names to values
SegmentMap == ToElementDict(ListV(build_call.segment_data), build_call.segment.id)

\* the validator call on edi_data ends with the result r
ValidatorEnds(edi_data, r) ==
    validator' = [status |-> IF r.raised THEN "raised" ELSE "returned",
                  edi_data |-> edi_data,
                  validation_errors |-> r.v]

\* EDIValidator.validate_single_segment on the map-shaped form of the segment
CallValidateSingleSegment ==
    /\ scenario.op = "segment"
    /\ validator.status = "idle"
    /\ ValidatorEnds(SegmentMap,
                     ValidateSingleSegment(build_call.segment.id, SegmentMap,
                                           build_call.segment))
    /\ UNCHANGED <<supported_formats, generator, build_call, parser, parse_call, scenario>>

SyntaxNext == CallBuildSegment \/ CallValidateSingleSegment

SpecSyntax == SyntaxInit /\ [][SyntaxNext]_vars

-----------------------------------------------------------------------------
(* Claims about the syntax rules (SpecSyntax)                              *)

TheRule == build_call.segment.syntax[1]

\* the laid-out slots: slot 0 is the segment id
LaidOut == OutputElements(generator, build_call.segment, build_call.segment_data).v

\* slot idx is within bounds and non-empty
SlotNonEmpty(slots, idx) == idx < Len(slots) /\ slots[idx + 1] # <<>>

NonEmptyCount(slots, criteria) ==
    Cardinality({i \in 1..Len(criteria) : SlotNonEmpty(slots, criteria[i])})

\* a rule is violated over the slots, as section 4.2 words it
RuleViolated(rule, slots) ==
    CASE rule.rule = "ATLEASTONE" -> NonEmptyCount(slots, rule.criteria) = 0
      [] rule.rule = "ALLORNONE" ->
           NonEmptyCount(slots, rule.criteria) \notin {0, Len(rule.criteria)}
      [] rule.rule = "IFATLEASTONE" ->
           /\ SlotNonEmpty(slots, rule.criteria[1])
           /\ NonEmptyCount(slots, Tail(rule.criteria)) = 0

SegmentBuilt ==
    /\ scenario.op = "segment"
    /\ build_call.status \in {"returned", "raised"}
    /\ build_call.why # "element"

SegmentValidated == scenario.op = "segment" /\ validator.status = "returned"

ReportsSyntaxError ==
    \E i \in 1..Len(validator.validation_errors) :
        validator.validation_errors[i].error \in RuleKinds

\* C4: for each rule kind and every segment value, the encoder rejects the
\* positional form of the segment if and only if the validator reports a
\* syntax error for the map-shaped form of the same segment.
C4_EncoderRejectsIffValidatorReports ==
    (SegmentBuilt /\ SegmentValidated)
        => ((build_call.status = "raised") <=> ReportsSyntaxError)

\* C5: build_segment fails exactly when a syntax rule of the segment is
\* violated over the laid-out slots, for every criteria list in any index
\* order.
C5_BuildSegmentFailsExactlyWhenViolated ==
    SegmentBuilt => ((build_call.status = "raised") <=> RuleViolated(TheRule, LaidOut))

\* the criteria of the rule are in ascending order
Ascending(criteria) == \A i \in 1..(Len(criteria) - 1) : criteria[i] < criteria[i + 1]

\* what the code does keep of C5: the equivalence for ascending criteria
C5_HoldsForAscendingCriteria ==
    (SegmentBuilt /\ Ascending(TheRule.criteria))
        => ((build_call.status = "raised") <=> RuleViolated(TheRule, LaidOut))

-----------------------------------------------------------------------------
(* Specification SpecBuild: EDIGenerator.build on a document               *)

\* the most iterations of the loop a document supplies
MaxIterations == 4

\* the most entries of the repeating segment a document supplies
MaxEntries == 3

Letters == <<"A", "B", "C", "D", "E", "F", "G">>

TsId == <<"8", "1", "0">>

\* the key of the transaction set in supported_formats
TsKey == SymbolsToStr(TsId)

\* the repeat limits the loop L_N1 is loaded with
LoopRepeats == {-1, 2, 3}

\* a transaction set: a header, a repeating segment, a loop of a mandatory
\* and an optional segment, a trailer
Schema810(repeat) ==
    <<Segment("ST", "M", 1,
              <<Element("ST01", "M", "ID", 3, 3), Element("ST02", "M", "AN", 1, 4)>>, <<>>),
      Segment("REF", "O", 2, <<Element("REF01", "M", "AN", 1, 2)>>, <<>>),
      Loop("L_N1", "O", repeat,
           <<Segment("N1", "M", 1, <<Element("N101", "M", "AN", 1, 2)>>, <<>>),
             Segment("N2", "O", 1, <<Element("N201", "O", "AN", 1, 2)>>, <<>>)>>),
      Segment("SE", "M", 1, <<Element("SE01", "M", "N0", 1, 3)>>, <<>>)>>

\* the iteration at position i: its N1, its N1 and N2, or its N2 alone; the
\* payloads name the position
IterationForms(i) ==
    LET n1 == <<"N1", ListV(<<StrV(<<Letters[i]>>)>>)>>
        n2 == <<"N2", ListV(<<StrV(<<Letters[i], "2">>)>>)>>
    IN {DictV(<<n1>>), DictV(<<n1, n2>>), DictV(<<n2>>)}

IterationLists ==
    UNION {{l \in [1..k -> UNION {IterationForms(i) : i \in 1..k}] :
               \A i \in 1..k : l[i] \in IterationForms(i)} : k \in 0..MaxIterations}

STData == <<"ST", ListV(<<StrV(TsId), StrV(<<"1">>)>>)>>
SEData == <<"SE", ListV(<<IntV(2)>>)>>

RefEntry(i) == ListV(<<StrV(<<"R", Letters[i]>>)>>)

RefDatas == {RefEntry(1)} \cup {ListV([i \in 1..k |-> RefEntry(i)]) : k \in 1..MaxEntries}

\* the documents handed to build
BuildDocuments ==
    {DictV(<<STData, <<"L_N1", ListV(l)>>, SEData>>) : l \in IterationLists}
    \cup {DictV(<<STData, <<"REF", r>>, <<"L_N1", ListV(<<it>>)>>, SEData>>) :
             r \in RefDatas, it \in IterationForms(1)}
    \cup {DictV(<<STData, SEData>>), DictV(<<SEData>>), DictV(<<STData>>),
          DictV(<<<<"ST", ListV(<<StrV(<<"9">>)>>)>>, SEData>>)}

BuildInit ==
    \E repeat \in LoopRepeats, data \in BuildDocuments :
        /\ supported_formats = (TsKey :> Schema810(repeat))
        /\ generator = NewGenerator
        /\ build_call = [status |-> "called", data |-> data, section |-> 1,
                         output_segments |-> <<>>, output |-> <<>>]
        /\ parser = Idle
        /\ parse_call = Idle
        /\ validator = NewValidator
        /\ scenario = [op |-> "build"]

\* build up to the loop over the schema (lines 22-34)
BuildBegin ==
    /\ scenario.op \in {"build", "roundtrip"}
    /\ build_call.status = "called"
    /\ LET data == build_call.data
           st == IF Has(data, "ST") THEN Get(data, "ST") ELSE NoneV
           found == st.t = "list" /\ st.l # <<>>
           ts_id == IF found THEN st.l[1] ELSE NoneV
           known == ts_id.t = "str" /\ SymbolsToStr(ts_id.s) \in DOMAIN supported_formats
       IN /\ generator' = IF found THEN [generator EXCEPT !.ts_id = ts_id]
                          ELSE generator
          /\ build_call' = [build_call EXCEPT
                              !.status = IF known THEN "walking" ELSE "raised"]
    /\ UNCHANGED <<supported_formats, parser, parse_call, validator, scenario>>

\* output_segments.extend(r), or the exception leaves build
SectionEnds(r) ==
    /\ generator' = r.g
    /\ build_call' =
         IF r.raised THEN [build_call EXCEPT !.status = "raised"]
         ELSE [build_call EXCEPT
                 !.section = @ + 1,
                 !.output_segments = @ \o r.v]

\* one schema node of the transaction set (lines 37-52)
BuildSection ==
    /\ scenario.op \in {"build", "roundtrip"}
    /\ build_call.status = "walking"
    /\ build_call.section <= Len(supported_formats[SymbolsToStr(generator.ts_id.s)])
    /\ SectionEnds(BuildSectionLines(
                       generator,
                       supported_formats[SymbolsToStr(generator.ts_id.s)][build_call.section],
                       build_call.data))
    /\ UNCHANGED <<supported_formats, parser, parse_call, validator, scenario>>

\* the join of the lines and the trailing delimiter (line 55)
BuildReturn ==
    /\ scenario.op \in {"build", "roundtrip"}
    /\ build_call.status = "walking"
    /\ build_call.section > Len(supported_formats[SymbolsToStr(generator.ts_id.s)])
    /\ build_call' = [build_call EXCEPT
                        !.status = "returned",
                        !.output = Join(build_call.output_segments,
                                        generator.segment_delimiter)
                                   \o generator.segment_delimiter]
    /\ UNCHANGED <<supported_formats, generator, parser, parse_call, validator, scenario>>

BuildNext == BuildBegin \/ BuildSection \/ BuildReturn

SpecBuild == BuildInit /\ [][BuildNext]_vars

-----------------------------------------------------------------------------
(* Claims about build (SpecBuild)                                          *)

BuildReturned == scenario.op = "build" /\ build_call.status = "returned"

BuildEnded == scenario.op = "build" /\ build_call.status \in {"returned", "raised"}

\* the transaction set build encodes against
BuildSchema == supported_formats[TsKey]

\* the lines of the returned text: what lies between the segment delimiters
LinesOf(parts) == SubSeq(parts, 1, Len(parts) - 1)

OutputLines == LinesOf(Split(build_call.output, generator.segment_delimiter))

\* the top-level schema node a line belongs to: the segment of its id, or the
\* loop that has a child of its id
NodeOf(line) ==
    CHOOSE n \in 1..Len(BuildSchema) :
        \/ BuildSchema[n].type = "segment" /\ BuildSchema[n].id = line[1]
        \/ /\ BuildSchema[n].type = "loop"
           /\ \E k \in 1..Len(BuildSchema[n].segments) :
                  BuildSchema[n].segments[k].id = line[1]

IsLoopLine(line) == BuildSchema[NodeOf(line)].type = "loop"

\* the document's list for the loop L_N1, empty when it has none
LoopData ==
    IF Has(build_call.data, "L_N1") THEN Get(build_call.data, "L_N1").l ELSE <<>>

\* the line of one child of an iteration: id, delimiter, payload
ChildLine(iteration, id) ==
    IF Has(iteration, id)
    THEN <<<<id>> \o generator.element_delimiter \o Get(iteration, id).l[1].s>>
    ELSE <<>>

\* the lines of the iterations from the i-th on, iteration by iteration
RECURSIVE IterationLines(_, _)
IterationLines(iterations, i) ==
    IF i > Len(iterations) THEN <<>>
    ELSE ChildLine(iterations[i], "N1") \o ChildLine(iterations[i], "N2")
         \o IterationLines(iterations, i + 1)

\* C2: in the text returned by build, every line of an earlier schema node
\* precedes every line of a later one, and the lines of a loop appear
\* iteration by iteration in the order of the document's list for the loop.
C2_LinesInSchemaAndIterationOrder ==
    BuildReturned =>
        /\ \A i, j \in 1..Len(OutputLines) :
               i < j => NodeOf(OutputLines[i]) <= NodeOf(OutputLines[j])
        /\ SelectSeq(OutputLines, IsLoopLine) = IterationLines(LoopData, 1)

\* build returned a text with the lines of three iterations, the first with
\* both children, between a header and a trailer
C2_ThreeIterationsBuilt ==
    /\ BuildReturned
    /\ Len(LoopData) = 3
    /\ Has(LoopData[1], "N1") /\ Has(LoopData[1], "N2")
    /\ Len(OutputLines) >= 6

\* C6: encoding a document that supplies more iterations of a loop than the
\* loop's repeat limit (repeat > -1) fails.
C6_TooManyIterationsFails ==
    (/\ BuildEnded
     /\ BuildSchema[3].repeat > -1
     /\ Len(LoopData) > BuildSchema[3].repeat)
        => build_call.status = "raised"

\* the children of the loop L_N1 with the given req that the i-th iteration
\* of the document lacks
AbsentChildren(i, reqs) ==
    {k \in 1..Len(BuildSchema[3].segments) :
        /\ BuildSchema[3].segments[k].req \in reqs
        /\ ~Has(LoopData[i], BuildSchema[3].segments[k].id)}

\* build failed at the loop, whose list of children passed the test of
\* line 70
FailedInIterations ==
    /\ build_call.status = "raised"
    /\ build_call.section = 3
    /\ Has(build_call.data, "L_N1")
    /\ Len(BuildSchema[3].segments) <= BuildSchema[3].repeat

\* C19: in every iteration of a loop of the document a child is handled by
\* its own req: an iteration that lacks a child of req M makes build fail,
\* and a child of req O or C that an iteration lacks is skipped, so that
\* build fails in the iterations only for a lacking child of req M
C19_ChildrenByOwnReq ==
    BuildEnded =>
        /\ (\E i \in 1..Len(LoopData) : AbsentChildren(i, {"M"}) # {})
               => build_call.status = "raised"
        /\ FailedInIterations
               => \E i \in 1..Len(LoopData) : AbsentChildren(i, {"M"}) # {}

\* what holds in a loop of req O: an iteration that lacks its optional
\* child does not make build fail
C19_OptionalChildSkippedInOptionalLoop ==
    (BuildEnded /\ BuildSchema[3].req = "O") => ~FailedInIterations

\* build failed at the loop, which the document holds
FailedAtLoop ==
    /\ build_call.status = "raised"
    /\ build_call.section = 3
    /\ Has(build_call.data, "L_N1")

\* C28: build rejects no loop of the document for its length when the
\* loop's repeat is -1 or the document supplies at most repeat iterations,
\* however many children the schema of the loop has: with every iteration
\* holding the mandatory child, build fails at the loop only for more
\* iterations than a repeat that is not -1
C28_LoopLengthByIterations ==
    (/\ BuildEnded
     /\ FailedAtLoop
     /\ \A i \in 1..Len(LoopData) : AbsentChildren(i, {"M"}) = {})
        => /\ BuildSchema[3].repeat > -1
           /\ Len(LoopData) > BuildSchema[3].repeat

\* what holds: no loop is rejected when its repeat is at least the number
\* of the children of its schema
C28_HoldsForRepeatOverChildren ==
    (BuildEnded /\ BuildSchema[3].repeat >= Len(BuildSchema[3].segments))
        => ~FailedAtLoop

-----------------------------------------------------------------------------
(* Specification SpecValidate: EDIValidator.validate on a document         *)

\* values that are no map of segments, and maps whose children are not
\* what the schema describes
OddDocuments ==
    {NoneV, ListV(<<>>), StrV(<<"A">>),
     DictV(<<<<"ST", StrV(<<"A">>)>>>>),
     DictV(<<<<"ZZ", NoneV>>>>),
     DictV(<<<<"ST", DictV(<<<<"ST01", ListV(<<>>)>>>>)>>>>),
     DictV(<<<<"REF", ListV(<<IntV(5)>>)>>>>),
     DictV(<<<<"L_N1", DictV(<<<<"N1", NoneV>>>>)>>>>)}

\* the ways a segment map leaves its mandatory first element without a
\* value: the key maps to None, or the map has no such key
Unfilled(element_id) == {DictV(<<<<element_id, NoneV>>>>), DictV(<<>>)}

\* documents with a segment that gives a mandatory element no value, at
\* the top level (ST02) and in an iteration of the loop (N101)
UnfilledDocuments ==
    {DictV(<<<<"ST", DictV(<<<<"ST01", StrV(TsId)>>>> \o st.items)>>,
             <<"SE", DictV(<<<<"SE01", IntV(2)>>>>)>>>>) : st \in Unfilled("ST02")}
    \cup {DictV(<<<<"ST", DictV(<<<<"ST01", StrV(TsId)>>, <<"ST02", StrV(<<"1">>)>>>>)>>,
                  <<"L_N1", ListV(<<DictV(<<<<"N1", n1>>>>)>>)>>,
                  <<"SE", DictV(<<<<"SE01", IntV(2)>>>>)>>>>) : n1 \in Unfilled("N101")}

\* the documents handed to validate: the map-shaped forms of the documents
\* handed to build, the odd ones, and those with an unfilled element
ValidateDocuments ==
    {ToElementDict(d, "") : d \in BuildDocuments} \cup OddDocuments \cup UnfilledDocuments

ValidateInit ==
    \E repeat \in LoopRepeats, edi_data \in ValidateDocuments :
        /\ supported_formats = (TsKey :> Schema810(repeat))
        /\ generator = NewGenerator
        /\ build_call = Idle
        /\ parser = Idle
        /\ parse_call = Idle
        /\ validator = NewValidator
        /\ scenario = [op |-> "validate", edi_data |-> edi_data]

\* EDIValidator.validate(edi_data, edi_format)
CallValidate ==
    /\ scenario.op \in {"validate", "roundtrip"}
    /\ validator.status = "idle"
    /\ ValidatorEnds(scenario.edi_data, Validate(scenario.edi_data, supported_formats[TsKey]))
    /\ UNCHANGED <<supported_formats, generator, build_call, parser, parse_call, scenario>>

ValidateNext == CallValidate

SpecValidate == ValidateInit /\ [][ValidateNext]_vars

-----------------------------------------------------------------------------
(* Claims about validate (SpecValidate)                                    *)

ValidateEnded ==
    scenario.op = "validate" /\ validator.status \in {"returned", "raised"}

\* C3: validate never aborts: for every document value and every schema it
\* returns a list and raises nothing.
C3_ValidateNeverAborts == ValidateEnded => validator.status = "returned"

\* the iterations the document holds for the loop L_N1
IterationsGiven ==
    IF scenario.edi_data.t = "dict" /\ Has(scenario.edi_data, "L_N1")
    THEN PyLen(Get(scenario.edi_data, "L_N1"))
    ELSE 0

\* the document is a map that holds a list for the loop L_N1
HoldsLoop ==
    /\ scenario.edi_data.t = "dict"
    /\ Has(scenario.edi_data, "L_N1")
    /\ Get(scenario.edi_data, "L_N1").t = "list"

\* the loop-cardinality errors of the returned list
LoopCardinalityErrors ==
    Cardinality({i \in 1..Len(validator.validation_errors) :
                    validator.validation_errors[i].data_type = "loop"
                    /\ validator.validation_errors[i].error = "loop repeats"})

\* C7: validate returns exactly one loop-cardinality error for a loop whose
\* data holds more iterations than the loop's repeat (repeat > -1), and no
\* loop-cardinality error when the iterations are at most repeat or repeat
\* is -1.
C7_OneLoopCardinalityError ==
    (ValidateEnded /\ HoldsLoop) =>
        IF supported_formats[TsKey][3].repeat > -1
           /\ IterationsGiven > supported_formats[TsKey][3].repeat
        THEN validator.status = "returned" /\ LoopCardinalityErrors = 1
        ELSE validator.status = "returned" => LoopCardinalityErrors = 0

\* the segment maps a value holds: the map itself, or the maps of a list
MapsOf(v) ==
    IF v.t = "dict" THEN {v}
    ELSE IF v.t = "list" THEN {v.l[i] : i \in {j \in 1..Len(v.l) : v.l[j].t = "dict"}}
    ELSE {}

\* the maps the document holds for a segment schema inside the map d
MapsFor(d, schema) ==
    IF d.t = "dict" /\ Has(d, schema.id) THEN MapsOf(Get(d, schema.id)) ELSE {}

\* the segments present in the document, each with its schema: those of the
\* top level and those of the iterations of a loop
PresentSegments ==
    LET top == supported_formats[TsKey]
    IN UNION {IF top[n].type = "segment"
              THEN {<<top[n], seg_data>> : seg_data \in MapsFor(scenario.edi_data, top[n])}
              ELSE UNION {{<<top[n].segments[k], seg_data>> :
                              seg_data \in MapsFor(iteration, top[n].segments[k])} :
                          k \in 1..Len(top[n].segments),
                          iteration \in MapsFor(scenario.edi_data, top[n])} :
              n \in 1..Len(top)}

\* the mandatory elements of the schema the segment map gives no value,
\* the key mapped to None or missing
WithoutValue(seg_schema, seg_data) ==
    {seg_schema.elements[e].id : e \in {i \in 1..Len(seg_schema.elements) :
        /\ seg_schema.elements[i].req = "M"
        /\ GetOrNone(seg_data, seg_schema.elements[i].id).t = "none"}}

\* the returned list has an error for the element
ElementReported(element_id) ==
    \E i \in 1..Len(validator.validation_errors) :
        /\ validator.validation_errors[i].data_type = "element"
        /\ validator.validation_errors[i].name = element_id

\* C16: for every segment present in the document, the list validate
\* returns has an error for each element of req M of its schema that the
\* segment gives no value, whether its key maps to None or is missing
C16_UnfilledMandatoryReported ==
    (scenario.op = "validate" /\ validator.status = "returned") =>
        \A present \in PresentSegments :
            \A element_id \in WithoutValue(present[1], present[2]) :
                ElementReported(element_id)

\* the same for the keys that map to None
C16_HoldsForNullValues ==
    (scenario.op = "validate" /\ validator.status = "returned") =>
        \A present \in PresentSegments :
            \A element_id \in WithoutValue(present[1], present[2]) :
                Has(present[2], element_id) => ElementReported(element_id)

-----------------------------------------------------------------------------
(* Specification SpecParse: EDIParser.parse on a stream with a segment no  *)
(* schema node describes                                                   *)

\* the most body segments of a stream handed to parse
MaxBody == 3

\* the interchange header: sixteen elements, the last one without a data type
IsaSegment ==
    Segment("ISA", "M", 1,
            [i \in 1..16 |->
               Element(ElementName("ISA", i), "M", IF i = 16 THEN "" ELSE "AN", 1, 1)],
            <<>>)

GsSegment == Segment("GS", "O", 1, <<Element("GS01", "M", "AN", 1, 2)>>, <<>>)
GeSegment == Segment("GE", "O", 1, <<Element("GE01", "M", "N0", 1, 3)>>, <<>>)
IeaSegment == Segment("IEA", "M", 1, <<Element("IEA01", "M", "N0", 1, 3)>>, <<>>)

\* the transaction set inside its envelope
EnvelopeSet(repeat) ==
    <<IsaSegment, GsSegment>> \o Schema810(repeat) \o <<GeSegment, IeaSegment>>

\* supported_formats as the loader leaves it: the transaction set under its
\* id, and the single segments verify_ending_segments looks up
Registry(repeat) ==
    (TsKey :> EnvelopeSet(repeat)) @@ ("IEA" :> <<IeaSegment>>)
    @@ ("SE" :> <<EnvelopeSet(repeat)[6]>>)

\* a segment of the stream: its id and its fields
Line(id, fields) == Join(<<<<id>>>> \o fields, <<"^">>)

IsaLine == Line("ISA", [i \in 1..16 |-> IF i = 16 THEN <<":">> ELSE <<"0">>])

\* the text of the segments, each followed by the segment delimiter
Stream(lines) == Join(lines, <<"\n">>) \o <<"\n">>

\* the segments a body is made of
BodyLines ==
    {Line("N1", <<<<"A">>>>), Line("N2", <<<<"A", "2">>>>),
     Line("N1", <<<<"B">>>>), Line("REF", <<<<"R", "A">>>>)}

Bodies == UNION {[1..k -> BodyLines] : k \in 0..MaxBody}

\* a segment of a vendor extension: no node of the schema has its id
ExtraLine == Line("ZZ", <<<<"9">>>>)

\* the segments of a stream around a body
Enveloped(body) ==
    <<IsaLine, Line("GS", <<<<"G">>>>), Line("ST", <<TsId, <<"1">>>>)>>
    \o body
    \o <<Line("SE", <<<<"2">>>>), Line("GE", <<<<"1">>>>), Line("IEA", <<<<"1">>>>)>>

\* lines with the extra segment after the first k of them
WithExtra(lines, k) == SubSeq(lines, 1, k) \o <<ExtraLine>> \o SubSeq(lines, k + 1, Len(lines))

ParseInit ==
    \E body \in Bodies :
      \E k \in 1..(Len(body) + 6) :
        /\ supported_formats = Registry(3)
        /\ generator = Idle
        /\ build_call = Idle
        /\ parser = NewParser("")
        /\ parse_call = [status |-> "called",
                         data |-> Stream(WithExtra(Enveloped(body), k)),
                         walk |-> NewWalk(<<>>)]
        /\ validator = Idle
        /\ scenario = [op |-> "parse", without |-> Stream(Enveloped(body))]

\* the caller's assignment parser.trans_set_specified = value: no code of the
\* package assigns the attribute that parse_st_header reads (line 76)
SetTransSetSpecified ==
    /\ parse_call.status = "called"
    /\ parser.trans_set_specified = "unset"
    /\ \E value \in {"true", "false"} :
           parser' = [parser EXCEPT !.trans_set_specified = value]
    /\ UNCHANGED <<supported_formats, generator, build_call, parse_call, validator, scenario>>

\* parse_segments up to its while loop (lines 169-181), after the header
Prepared(r, data) ==
    IF r.raised THEN r
    ELSE ResolveFormat(ParseRequiredSegments(r.p, Split(data, r.p.segment_delimiter)))

\* the walk begins on the segments of data, or the exception leaves parse
ParseBegins(r, data) ==
    /\ parser' = r.p
    /\ parse_call' =
         IF r.raised THEN [parse_call EXCEPT !.status = "raised"]
         ELSE [parse_call EXCEPT
                 !.status = "walking",
                 !.walk = NewWalk(Split(data, r.p.segment_delimiter))]

\* parse up to the while loop of parse_segments (lines 158-181)
ParseBegin ==
    /\ parse_call.status = "called"
    /\ ParseBegins(Prepared(ParseIsaHeader(parser, parse_call.data), parse_call.data),
                   parse_call.data)
    /\ UNCHANGED <<supported_formats, generator, build_call, validator, scenario>>

\* the pass of the while loop ends with the result r
WalkStepEnds(r) ==
    parse_call' = IF r.raised THEN [parse_call EXCEPT !.status = "raised"]
                  ELSE [parse_call EXCEPT !.walk = r.v]

\* one pass of the while loop of parse_segments (lines 183-227)
ParseWalkStep ==
    /\ parse_call.status = "walking"
    /\ parse_call.walk.edi_segments # <<>>
    /\ WalkStepEnds(WalkStep(parser, parse_call.walk))
    /\ UNCHANGED <<supported_formats, generator, build_call, parser, validator, scenario>>

\* return found_segments, to_return (line 233)
ParseReturn ==
    /\ parse_call.status = "walking"
    /\ parse_call.walk.edi_segments = <<>>
    /\ parse_call' = [parse_call EXCEPT !.status = "returned"]
    /\ UNCHANGED <<supported_formats, generator, build_call, parser, validator, scenario>>

ParseNext == SetTransSetSpecified \/ ParseBegin \/ ParseWalkStep \/ ParseReturn

SpecParse == ParseInit /\ [][ParseNext]_vars

-----------------------------------------------------------------------------
(* Claims about the walk of parse_segments (SpecParse)                     *)

ParseEnded == scenario.op = "parse" /\ parse_call.status \in {"returned", "raised"}

\* the parser as it was when parse was called
ParserAtCall ==
    [NewParser("") EXCEPT !.trans_set_specified = parser.trans_set_specified]

\* parse ended as the call with the outcome e ends
SameOutcome(e) ==
    IF e.raised THEN parse_call.status = "raised"
    ELSE /\ parse_call.status = "returned"
         /\ parse_call.walk.found_segments = e.v.found_segments
         /\ parse_call.walk.to_return = e.v.to_return

\* C10: a segment whose id matches no top-level schema node is skipped
\* without aborting, and the order list and the document parse returns are
\* those it returns for the stream without that segment
C10_UnrecognizedSegmentAsAbsent ==
    ParseEnded => SameOutcome(Parse(ParserAtCall, scenario.without))

-----------------------------------------------------------------------------
(* EDIParser.parse_set_group                                               *)

\* self.group_count = int(elements[1]) (line 137)
GroupCount(p, elements) ==
    IF Len(elements) < 2 THEN PRaise(p)
    ELSE IF ~AllDigits(Strip(elements[2])) THEN PRaise(p)
    ELSE POk([p EXCEPT !.group_count = Count(DigitsVal(Strip(elements[2])))])

RECURSIVE ParseGroupSegments(_, _, _)

\* one segment of the for loop of parse_group_segments (lines 128-138)
GroupSegment(p, edi_segments, gs_found, elements) ==
    IF elements[1] = <<"GS">> THEN ParseGroupSegments(p, Tail(edi_segments), TRUE)
    ELSE IF elements[1] = <<"GE">>
    THEN IF ~gs_found THEN PRaise(p)
         ELSE GroupCount([p EXCEPT !.groups_defined = "true"], elements)
    ELSE ParseGroupSegments(p, Tail(edi_segments), gs_found)

\* parse_group_segments (lines 124-138)
ParseGroupSegments(p, edi_segments, gs_found) ==
    IF edi_segments = <<>> THEN POk(p)
    ELSE GroupSegment(p, edi_segments, gs_found,
                      Split(Head(edi_segments), p.element_delimiter))

RECURSIVE GetStIndicies(_, _, _, _)

\* if st_index > -1 and se_index > -1 (lines 152-154); indexes count from 0
PairAt(names, index, st_index, se_index) ==
    IF st_index > -1 /\ se_index > -1
    THEN <<<<st_index, se_index>>>> \o GetStIndicies(names, index + 1, -1, -1)
    ELSE GetStIndicies(names, index + 1, st_index, se_index)

\* get_st_indicies from the segment at index on (lines 140-156)
GetStIndicies(names, index, st_index, se_index) ==
    IF index >= Len(names) THEN <<>>
    ELSE PairAt(names, index,
                IF names[index + 1] = "ST" THEN index ELSE st_index,
                IF names[index + 1] # "ST" /\ names[index + 1] = "SE"
                THEN index ELSE se_index)

\* the test of the count (lines 110-113); reading group_count raises
\* AttributeError when no GE segment assigned it
CountRaises(p, st_indicies) ==
    \/ Len(st_indicies) = 0
    \/ ~p.group_count.assigned
    \/ Len(st_indicies) # p.group_count.n

\* edi_segments[: first_index] + edi_segments[st_index : se_index + 1]
\* + edi_segments[last_index + 1 :] (line 119)
StSegment(edi_segments, first_index, pair, last_index) ==
    SubSeq(edi_segments, 1, first_index)
    \o SubSeq(edi_segments, pair[1] + 1, pair[2] + 1)
    \o SubSeq(edi_segments, last_index + 2, Len(edi_segments))

-----------------------------------------------------------------------------
(* Specification SpecSetGroup: EDIParser.parse_set_group on a stream of    *)
(* transaction sets inside one group                                       *)

\* the most transaction sets of a stream
MaxSets == 3

\* the segments between the ST and the SE of a transaction set
SetBodies ==
    {<<>>, <<Line("N1", <<<<"A">>>>)>>,
     <<Line("N1", <<<<"A">>>>), Line("N2", <<<<"A", "2">>>>)>>,
     <<Line("REF", <<<<"R", "A">>>>)>>}

\* the transaction set at position i: its control number names the position
SetLines(body, i) ==
    <<Line("ST", <<TsId, <<Digits[i + 1]>>>>)>> \o body
    \o <<Line("SE", <<<<Digits[Len(body) + 3]>>>>)>>

RECURSIVE AllSetLines(_, _)
AllSetLines(bodies, i) ==
    IF i > Len(bodies) THEN <<>>
    ELSE SetLines(bodies[i], i) \o AllSetLines(bodies, i + 1)

\* the segments of a group of transaction sets whose GE gives count
Grouped(set_lines, count) ==
    <<IsaLine, Line("GS", <<<<"G">>>>)>> \o set_lines
    \o <<Line("GE", <<<<Digits[count + 1]>>>>), Line("IEA", <<<<"1">>>>)>>

SetGroupInit ==
    \E bodies \in UNION {[1..k -> SetBodies] : k \in 0..MaxSets} :
      \E count \in 0..(MaxSets + 1), key \in {"", TsKey} :
        /\ supported_formats = Registry(3)
        /\ generator = Idle
        /\ build_call = Idle
        /\ parser = NewParser(key)
        /\ parse_call = [status |-> "called",
                         data |-> Stream(Grouped(AllSetLines(bodies, 1), count)),
                         edi_segments |-> <<>>, st_indicies |-> <<>>,
                         next |-> 1, edi_sets |-> <<>>]
        /\ validator = Idle
        /\ scenario = [op |-> "set_group", bodies |-> bodies, count |-> count,
                       edi_format |-> key]

\* the for loop over the pairs begins, or the exception leaves parse_set_group
SetGroupBegins(r, edi_segments, st_indicies) ==
    /\ parser' = r.p
    /\ parse_call' =
         IF r.raised \/ CountRaises(r.p, st_indicies)
         THEN [parse_call EXCEPT !.status = "raised"]
         ELSE [parse_call EXCEPT !.status = "looping",
                                 !.edi_segments = edi_segments,
                                 !.st_indicies = st_indicies]

\* parse_set_group after the header (lines 103-116)
SetGroupSplit(r, edi_segments) ==
    IF r.raised THEN SetGroupBegins(r, <<>>, <<>>)
    ELSE SetGroupBegins(ParseGroupSegments(r.p, edi_segments, FALSE), edi_segments,
                        GetStIndicies(SegmentNames(r.p, edi_segments), 0, -1, -1))

SetGroupHeader(r, data) ==
    SetGroupSplit(r, IF r.raised THEN <<>> ELSE Split(data, r.p.segment_delimiter))

\* parse_set_group up to its for loop (lines 98-116)
SetGroupBegin ==
    /\ scenario.op = "set_group"
    /\ parse_call.status = "called"
    /\ SetGroupHeader(ParseIsaHeader(parser, parse_call.data), parse_call.data)
    /\ UNCHANGED <<supported_formats, generator, build_call, validator, scenario>>

\* edi_sets.append(r), or the exception leaves parse_set_group
SetParsed(r) ==
    /\ parser' = r.p
    /\ parse_call' =
         IF r.raised THEN [parse_call EXCEPT !.status = "raised"]
         ELSE [parse_call EXCEPT
                 !.next = @ + 1,
                 !.edi_sets = Append(@, <<r.v.found_segments, r.v.to_return>>)]

\* one pass of the for loop: parse_segments on the segments of one pair
\* (lines 118-120)
SetGroupParse ==
    /\ parse_call.status = "looping"
    /\ parse_call.next <= Len(parse_call.st_indicies)
    /\ SetParsed(ParseSegments(
                     parser,
                     StSegment(parse_call.edi_segments,
                               parse_call.st_indicies[1][1],
                               parse_call.st_indicies[parse_call.next],
                               parse_call.st_indicies[Len(parse_call.st_indicies)][2])))
    /\ UNCHANGED <<supported_formats, generator, build_call, validator, scenario>>

\* return edi_sets (line 122)
SetGroupReturn ==
    /\ parse_call.status = "looping"
    /\ parse_call.next > Len(parse_call.st_indicies)
    /\ parse_call' = [parse_call EXCEPT !.status = "returned"]
    /\ UNCHANGED <<supported_formats, generator, build_call, parser, validator, scenario>>

SetGroupNext == SetTransSetSpecified \/ SetGroupBegin \/ SetGroupParse \/ SetGroupReturn

SpecSetGroup == SetGroupInit /\ [][SetGroupNext]_vars

-----------------------------------------------------------------------------
(* Claims about parse_set_group (SpecSetGroup)                             *)

SetGroupEnded ==
    scenario.op = "set_group" /\ parse_call.status \in {"returned", "raised"}

\* the parser the call was made on
ParserBefore ==
    [NewParser(scenario.edi_format) EXCEPT
       !.trans_set_specified = parser.trans_set_specified]

\* the stream of the transaction set at position i alone in the envelope
AloneStream(i) ==
    Stream(Grouped(SetLines(scenario.bodies[i], i), scenario.count))

\* the document at position i of the returned list is the parsed form e
DocumentIs(i, e) ==
    /\ ~e.raised
    /\ parse_call.edi_sets[i] = <<e.v.found_segments, e.v.to_return>>

\* what the claim says of a call that ended
OnePerPair ==
    IF Len(scenario.bodies) = scenario.count
    THEN /\ parse_call.status = "returned"
         /\ Len(parse_call.edi_sets) = Len(scenario.bodies)
         /\ \A i \in 1..Len(scenario.bodies) :
               DocumentIs(i, Parse(ParserBefore, AloneStream(i)))
    ELSE parse_call.status = "raised"

\* C9: parse_set_group returns one parsed document per ST/SE pair, in stream
\* order, when the number of pairs equals the count in GE[1], and fails when
\* the number of pairs differs from it
C9_OneDocumentPerPair == SetGroupEnded => OnePerPair

\* the same for the calls of a caller that assigned trans_set_specified =
\* False, on a stream that has a transaction set
C9_HoldsOnceDetectionIsOn ==
    (SetGroupEnded /\ parser.trans_set_specified = "false" /\ scenario.bodies # <<>>)
        => OnePerPair

-----------------------------------------------------------------------------
(* EDIConverter.to_element_list                                            *)

\* [ data.get(value) for value in data ] (line 39)
Values(d) == [i \in 1..Len(d.items) |-> d.items[i][2]]

RECURSIVE ToElementList(_)
RECURSIVE ElementListFrom(_, _, _)

\* a converted value before the converted rest of the list
ConsOk(first, more) ==
    IF first.raised \/ more.raised THEN Raise ELSE Ok(<<first.v>> \o more.v)

\* [ cls.to_element_list(list_value) for list_value in data ] (line 41)
RECURSIVE EachToElementList(_)
EachToElementList(l) ==
    IF l = <<>> THEN Ok(<<>>)
    ELSE ConsOk(ToElementList(Head(l)), EachToElementList(Tail(l)))

\* output_data[key] = the converted list, unless a conversion raised
AfterList(input_data, i, out, key, converted) ==
    IF converted.raised THEN Raise
    ELSE ElementListFrom(input_data, i + 1, Put(out, key, ListV(converted.v)))

\* one item of input_data.items() (lines 38-44)
AfterItem(input_data, i, out, key, data) ==
    IF data.t = "dict"
    THEN ElementListFrom(input_data, i + 1, Put(out, key, ListV(Values(data))))
    ELSE IF data.t = "list" THEN AfterList(input_data, i, out, key, EachToElementList(data.l))
    ELSE IF Truthy(data) THEN Ok(ListV(Values(input_data)))
    ELSE ElementListFrom(input_data, i + 1, out)

\* the for loop from item i on (lines 37-44)
ElementListFrom(input_data, i, out) ==
    IF i > Len(input_data.items) THEN Ok(out)
    ELSE AfterItem(input_data, i, out, input_data.items[i][1], input_data.items[i][2])

\* to_element_list (lines 33-48)
ToElementList(input_data) ==
    IF input_data.t = "dict" THEN ElementListFrom(input_data, 1, DictV(<<>>))
    ELSE Raise

-----------------------------------------------------------------------------
(* Specification SpecRoundTrip: a document is validated, converted to     *)
(* lists, built into text and parsed back                                  *)

\* the formats of the element under test: data type, least and most length
PayFormats ==
    {<<"AN", 1, 3>>, <<"ID", 1, 3>>, <<"N0", 1, 3>>, <<"N2", 1, 3>>, <<"N2", 1, 4>>,
     <<"R", 1, 4>>, <<"DT", 8, 8>>, <<"DT", 6, 6>>, <<"TM", 4, 4>>}

\* 2024-01-31
ADate == 20240131

\* 01:02:03 in seconds
ATime == 3723

\* the date strptime gives a time of day: 1900-01-01
TimeOnly == 19000101

\* 01:02:00 in seconds
AMinute == 3720

\* the values a caller supplies for the element under test
PayValues ==
    {NoneV, StrV(<<>>), StrV(<<"A">>), StrV(<<"A", "^", "B">>), StrV(<<"5">>),
     IntV(5), IntV(0), FloatV(1500), FloatV(250),
     DateTimeV(ADate, 0), DateTimeV(TimeOnly, AMinute), DateTimeV(ADate, ATime)}

\* the values of the optional element after it
TrailingValues == {NoneV, StrV(<<>>), StrV(<<"B">>)}

\* the segment under test
PaySegment(format) ==
    Segment("PAY", "O", 1,
            <<Element("PAY01", "O", format[1], format[2], format[3]),
              Element("PAY02", "O", "AN", 0, 2)>>, <<>>)

\* a transaction set of the segment under test inside the interchange
RoundTripSet(format) ==
    <<IsaSegment, Schema810(3)[1], PaySegment(format), Schema810(3)[4], IeaSegment>>

RoundTripRegistry(format) ==
    (TsKey :> RoundTripSet(format)) @@ ("IEA" :> <<IeaSegment>>)
    @@ ("SE" :> <<Schema810(3)[4]>>)

\* the map-shaped document around the values of the segment under test
RoundTripDocument(value, trailing) ==
    DictV(<<<<"ISA", DictV([i \in 1..16 |->
                              <<ElementName("ISA", i),
                                StrV(IF i = 16 THEN <<":">> ELSE <<"0">>)>>])>>,
            <<"ST", DictV(<<<<"ST01", StrV(TsId)>>, <<"ST02", StrV(<<"1">>)>>>>)>>,
            <<"PAY", DictV(<<<<"PAY01", value>>, <<"PAY02", trailing>>>>)>>,
            <<"SE", DictV(<<<<"SE01", IntV(2)>>>>)>>,
            <<"IEA", DictV(<<<<"IEA01", IntV(1)>>>>)>>>>)

RoundTripInit ==
    \E format \in PayFormats, value \in PayValues, trailing \in TrailingValues :
        /\ supported_formats = RoundTripRegistry(format)
        /\ generator = NewGenerator
        /\ build_call = [status |-> "waiting", data |-> NoneV, section |-> 1,
                         output_segments |-> <<>>, output |-> <<>>]
        /\ parser = NewParser("")
        /\ parse_call = [status |-> "waiting", data |-> <<>>, walk |-> NewWalk(<<>>)]
        /\ validator = NewValidator
        /\ scenario = [op |-> "roundtrip",
                       edi_data |-> RoundTripDocument(value, trailing)]

\* build is called on the converted document, or to_element_list raised
Encodes(r) ==
    build_call' = IF r.raised THEN [build_call EXCEPT !.status = "raised"]
                  ELSE [build_call EXCEPT !.status = "called", !.data = r.v]

\* the caller encodes a document that validated with no errors:
\* EDIGenerator.build(EDIConverter.to_element_list(edi_data))
Encode ==
    /\ scenario.op = "roundtrip"
    /\ validator.status = "returned"
    /\ validator.validation_errors = <<>>
    /\ build_call.status = "waiting"
    /\ Encodes(ToElementList(scenario.edi_data))
    /\ UNCHANGED <<supported_formats, generator, parser, parse_call, validator, scenario>>

\* the caller decodes the text build returned: EDIParser.parse(output)
Decode ==
    /\ scenario.op = "roundtrip"
    /\ build_call.status = "returned"
    /\ parse_call.status = "waiting"
    /\ parse_call' = [parse_call EXCEPT !.status = "called", !.data = build_call.output]
    /\ UNCHANGED <<supported_formats, generator, build_call, parser, validator, scenario>>

RoundTripNext ==
    \/ CallValidate \/ Encode \/ BuildBegin \/ BuildSection \/ BuildReturn
    \/ Decode \/ SetTransSetSpecified \/ ParseBegin \/ ParseWalkStep \/ ParseReturn

SpecRoundTrip == RoundTripInit /\ [][RoundTripNext]_vars

-----------------------------------------------------------------------------
(* Claims about the round trip (SpecRoundTrip)                             *)

\* the symbols that occur in a text
Symbols(text) == {text[i] : i \in 1..Len(text)}

\* the document validated with no errors, build returned text for it and
\* parse ended on that text
RoundTripEnded ==
    /\ scenario.op = "roundtrip"
    /\ validator.status = "returned" /\ validator.validation_errors = <<>>
    /\ build_call.status = "returned"
    /\ parse_call.status \in {"returned", "raised"}

\* the items of a segment without its trailing empty elements
RECURSIVE TrimEmpty(_)
TrimEmpty(items) ==
    IF items = <<>> THEN <<>>
    ELSE IF items[Len(items)][2].t = "none" THEN TrimEmpty(SubSeq(items, 1, Len(items) - 1))
    ELSE items

\* a document up to null versus the empty string and up to the trailing
\* empty elements of its segments
RECURSIVE Normal(_)
Normal(v) ==
    IF v.t = "dict"
    THEN DictV(TrimEmpty([i \in 1..Len(v.items) |->
                            <<v.items[i][1], Normal(v.items[i][2])>>]))
    ELSE IF v.t = "list" THEN ListV([i \in 1..Len(v.l) |-> Normal(v.l[i])])
    ELSE IF v.t = "str" /\ v.s = <<>> THEN NoneV
    ELSE v

\* C1: for a document that validates with no errors, decoding the text that
\* encoding it produced yields the same document, up to null versus the empty
\* string and up to trailing empty elements
C1_RoundTripIsIdentity ==
    RoundTripEnded
        => /\ parse_call.status = "returned"
           /\ PyEq(Normal(parse_call.walk.to_return), Normal(scenario.edi_data))

\* the same for the decodes of a caller that assigned trans_set_specified =
\* False, on elements of text without a delimiter in it
PlainText ==
    /\ supported_formats[TsKey][3].elements[1].data_type \in {"AN", "ID"}
    /\ Get(Get(scenario.edi_data, "PAY"), "PAY01").t \in {"none", "str"}
    /\ "^" \notin Symbols(Get(Get(scenario.edi_data, "PAY"), "PAY01").s)

C1_HoldsForPlainText ==
    (RoundTripEnded /\ parser.trans_set_specified = "false" /\ PlainText)
        => /\ parse_call.status = "returned"
           /\ PyEq(Normal(parse_call.walk.to_return), Normal(scenario.edi_data))

\* build returned the text of a document that validated with no errors
RoundTripBuilt ==
    /\ scenario.op = "roundtrip"
    /\ build_call.status = "returned"

\* the delimiters in force in the generator
DelimitersInForce ==
    Symbols(generator.element_delimiter) \cup Symbols(generator.segment_delimiter)
    \cup Symbols(generator.data_delimiter)
    \cup (IF generator.component_element_delimiter = Unset THEN {}
          ELSE Symbols(generator.component_element_delimiter))

\* the payload build_element emits for element i of the segment under test
Payload(i) ==
    BuildElement(supported_formats[TsKey][3].elements[i],
                 Get(build_call.data, "PAY").l[i]).v

\* C8: no element payload the encoder emits contains a delimiter in force:
\* the delimiters in a caller-supplied value are stripped before the element
\* is emitted
C8_NoDelimiterInPayload ==
    RoundTripBuilt => \A i \in 1..2 : Symbols(Payload(i)) \cap DelimitersInForce = {}

\* the segment lines of the text build returned
EmittedLines ==
    SubSeq(Split(build_call.output, generator.segment_delimiter), 1,
           Len(Split(build_call.output, generator.segment_delimiter)) - 1)

\* the payload build_element emits for element i of the k-th node of the set
PayloadOf(k, i) ==
    BuildElement(supported_formats[TsKey][k].elements[i],
                 Get(build_call.data, supported_formats[TsKey][k].id).l[i]).v

\* the index of the last element of the k-th node emitted as non-empty text,
\* 0 when all are empty
LastNonEmpty(k) ==
    LET given == {i \in 1..Len(supported_formats[TsKey][k].elements) :
                     /\ i <= Len(Get(build_call.data, supported_formats[TsKey][k].id).l)
                     /\ PayloadOf(k, i) # <<>>}
    IN IF given = {} THEN 0 ELSE CHOOSE i \in given : \A j \in given : j <= i

\* the line of the k-th node, split at the element delimiter, is within the
\* schema of the node
LineWithinSchema(k, fields) ==
    /\ SymbolsToStr(fields[1]) = supported_formats[TsKey][k].id
    /\ Len(fields) - 1 <= Len(supported_formats[TsKey][k].elements)
    /\ Len(fields) - 1 >= LastNonEmpty(k)
    /\ Len(fields) > 1 => fields[Len(fields)] # <<>>

\* C14: every segment line the encoder emits starts with the segment id, has
\* at most as many elements as the schema of the segment and at least as many
\* as the index of its last non-empty element, and has no empty element at
\* its right end
C14_LinesWithinSchema ==
    RoundTripBuilt =>
        /\ Len(EmittedLines) = Len(supported_formats[TsKey])
        /\ \A k \in 1..Len(EmittedLines) :
              LineWithinSchema(k, Split(EmittedLines[k], generator.element_delimiter))

\* the same for the documents without a delimiter in a value
C14_HoldsWithoutDelimiters ==
    (RoundTripBuilt /\ \A i \in 1..2 : Symbols(Payload(i)) \cap DelimitersInForce = {}) =>
        /\ Len(EmittedLines) = Len(supported_formats[TsKey])
        /\ \A k \in 1..Len(EmittedLines) :
              LineWithinSchema(k, Split(EmittedLines[k], generator.element_delimiter))

-----------------------------------------------------------------------------
(* Specification SpecRepeat: EDIParser.parse on a stream in which segments *)
(* of one use come more than once                                          *)

\* the most body segments of such a stream
MaxRepeated == 3

\* a transaction set with a segment of one use (DTM) before the loop of N1
\* and N2, both of one use
RepeatSet ==
    <<IsaSegment, Schema810(3)[1],
      Segment("DTM", "O", 1, <<Element("DTM01", "M", "AN", 1, 2)>>, <<>>),
      Schema810(3)[3], Schema810(3)[4], IeaSegment>>

RepeatRegistry ==
    (TsKey :> RepeatSet) @@ ("IEA" :> <<IeaSegment>>) @@ ("SE" :> <<Schema810(3)[4]>>)

RepeatLines ==
    {Line("DTM", <<<<"D", "1">>>>), Line("DTM", <<<<"D", "2">>>>), Line("N1", <<<<"A">>>>),
     Line("N2", <<<<"X">>>>), Line("N2", <<<<"Y">>>>)}

RepeatBodies == UNION {[1..k -> RepeatLines] : k \in 0..MaxRepeated}

RepeatStream(body) ==
    Stream(<<IsaLine, Line("ST", <<TsId, <<"1">>>>)>> \o body
           \o <<Line("SE", <<<<"2">>>>), Line("IEA", <<<<"1">>>>)>>)

RepeatInit ==
    \E body \in RepeatBodies :
        /\ supported_formats = RepeatRegistry
        /\ generator = Idle
        /\ build_call = Idle
        /\ parser = NewParser("")
        /\ parse_call = [status |-> "called", data |-> RepeatStream(body),
                         walk |-> NewWalk(<<>>)]
        /\ validator = Idle
        /\ scenario = [op |-> "repeat", body |-> body]

RepeatNext == SetTransSetSpecified \/ ParseBegin \/ ParseWalkStep \/ ParseReturn

SpecRepeat == RepeatInit /\ [][RepeatNext]_vars

-----------------------------------------------------------------------------
(* Claims about segments of one use that come again (SpecRepeat)           *)

RepeatReturned == scenario.op = "repeat" /\ parse_call.status = "returned"

\* the positions of the body, in stream order, whose segment has the id
PositionsOf(id) ==
    SelectSeq([i \in 1..Len(scenario.body) |-> i], LAMBDA i : scenario.body[i][1] = id)

\* the values parse_segment gives the segments at the positions
ParsedAt(positions, segment_format) ==
    [j \in 1..Len(positions) |->
        ParseSegment(parser, scenario.body[positions[j]], segment_format).v]

\* the n > 1 DTM segments of the stream are all in the list under DTM
TopLevelKept ==
    Len(PositionsOf("DTM")) > 1
        => /\ Has(parse_call.walk.to_return, "DTM")
           /\ Get(parse_call.walk.to_return, "DTM") = ListV(ParsedAt(PositionsOf("DTM"), RepeatSet[3]))

\* the N2 segments that follow the segment at position p without a gap
RunAfter(p) ==
    LET n == CHOOSE n \in 0..(Len(scenario.body) - p) :
                 /\ \A i \in 1..n : scenario.body[p + i][1] = "N2"
                 /\ p + n < Len(scenario.body) => scenario.body[p + n + 1][1] # "N2"
    IN [i \in 1..n |-> p + i]

\* the iteration the j-th N1 of the stream begins holds all of the n > 1 N2
\* segments that follow it
LoopChildKept ==
    \A j \in 1..Len(PositionsOf("N1")) :
        Len(RunAfter(PositionsOf("N1")[j])) > 1
            => /\ Has(parse_call.walk.to_return, "L_N1")
               /\ Len(Get(parse_call.walk.to_return, "L_N1").l) >= j
               /\ Has(Get(parse_call.walk.to_return, "L_N1").l[j], "N2")
               /\ Get(Get(parse_call.walk.to_return, "L_N1").l[j], "N2")
                    = ListV(ParsedAt(RunAfter(PositionsOf("N1")[j]), RepeatSet[4].segments[2]))

\* C11: a segment of one use that comes n > 1 times, at the top level or as
\* a later child of one loop iteration, is stored as the list of all n parsed
\* values in stream order: none is overwritten or lost
C11_RepeatedSegmentsKept == RepeatReturned => (TopLevelKept /\ LoopChildKept)

\* the same at the top level alone
C11_HoldsAtTopLevel == RepeatReturned => TopLevelKept

-----------------------------------------------------------------------------
(* Claims about the order list of parse (SpecRepeat)                       *)

\* the names of the segments of the stream handed to parse
StreamNames == SegmentNames(parser, Split(parse_call.data, parser.segment_delimiter))

\* the segment at position i of the stream is stored under the key
StoredUnder(key, i) == StreamNames[i] = key \/ IsListType(key, StreamNames[i])

\* the position of the first segment of the stream stored under the key,
\* 0 when there is none
FirstOccurrence(key) ==
    IF \E i \in 1..Len(StreamNames) : StoredUnder(key, i)
    THEN CHOOSE i \in 1..Len(StreamNames) :
             StoredUnder(key, i) /\ \A j \in 1..(i - 1) : ~StoredUnder(key, j)
    ELSE 0

\* C12: the order list parse returns has every key of the document it
\* returns exactly once and nothing else, in the order of the first segments
\* of the keys in the stream
C12_OrderListIsKeysByFirstOccurrence ==
    RepeatReturned =>
        /\ Len(parse_call.walk.found_segments) = Len(parse_call.walk.to_return.items)
        /\ \A i \in 1..Len(parse_call.walk.found_segments) :
              /\ Has(parse_call.walk.to_return, parse_call.walk.found_segments[i])
              /\ FirstOccurrence(parse_call.walk.found_segments[i]) > 0
              /\ \A j \in (i + 1)..Len(parse_call.walk.found_segments) :
                    FirstOccurrence(parse_call.walk.found_segments[i])
                        < FirstOccurrence(parse_call.walk.found_segments[j])
        /\ \A i \in 1..Len(parse_call.walk.to_return.items) :
              \E j \in 1..Len(parse_call.walk.found_segments) :
                  parse_call.walk.found_segments[j] = parse_call.walk.to_return.items[i][1]

\* parse returned for a stream with a DTM on either side of an N1: the key
\* DTM came twice, with the key L_N1 between
C12_KeySeenAgainLater ==
    /\ RepeatReturned
    /\ PositionsOf("DTM") = <<1, 3>>
    /\ PositionsOf("N1") = <<2>>
    /\ parse_call.walk.found_segments = <<"ISA", "ST", "DTM", "L_N1", "SE", "IEA">>

-----------------------------------------------------------------------------
(* Specification SpecReuse: one EDIParser parses a text and then another   *)

\* the id of a second transaction set
OtherTsId == <<"8", "5", "0">>

\* the second transaction set: N2 is a segment of its own, with a number
OtherSet ==
    <<IsaSegment, Schema810(3)[1],
      Segment("N2", "O", 1, <<Element("N201", "O", "N0", 1, 2)>>, <<>>),
      Schema810(3)[4], IeaSegment>>

ReuseRegistry == (SymbolsToStr(OtherTsId) :> OtherSet) @@ RepeatRegistry

\* the text with other element and segment delimiters
Restyle(text, ed, sd) ==
    [i \in 1..Len(text) |->
        IF text[i] = "^" THEN ed ELSE IF text[i] = "\n" THEN sd ELSE text[i]]

\* a stream of the transaction set ts around the body
TextOf(ts, body) ==
    Stream(<<IsaLine, Line("ST", <<ts, <<"1">>>>)>> \o body
           \o <<Line("SE", <<<<"2">>>>), Line("IEA", <<<<"1">>>>)>>)

ReuseTexts ==
    LET plain == {TextOf(ts, body) :
                     ts \in {TsId, OtherTsId},
                     body \in {<<Line("N2", <<<<"5">>>>)>>,
                               <<Line("N1", <<<<"A">>>>), Line("N2", <<<<"5">>>>)>>}}
    IN plain \cup {Restyle(text, "*", "~") : text \in plain}

ReuseInit ==
    \E first \in ReuseTexts, second \in ReuseTexts :
        /\ supported_formats = ReuseRegistry
        /\ generator = Idle
        /\ build_call = Idle
        /\ parser = NewParser("")
        /\ parse_call = [status |-> "called", data |-> first, walk |-> NewWalk(<<>>)]
        /\ validator = Idle
        /\ scenario = [op |-> "reuse", calls |-> 1, second |-> second]

\* the caller calls parse again, on the second text, after the first call
\* returned or raised
ParseAgain ==
    /\ scenario.op = "reuse"
    /\ scenario.calls = 1
    /\ parse_call.status \in {"returned", "raised"}
    /\ parse_call' = [status |-> "called", data |-> scenario.second, walk |-> NewWalk(<<>>)]
    /\ scenario' = [scenario EXCEPT !.calls = 2]
    /\ UNCHANGED <<supported_formats, generator, build_call, parser, validator>>

ReuseNext ==
    SetTransSetSpecified \/ ParseBegin \/ ParseWalkStep \/ ParseReturn \/ ParseAgain

SpecReuse == ReuseInit /\ [][ReuseNext]_vars

-----------------------------------------------------------------------------
(* Claims about a parser that is used again (SpecReuse)                    *)

\* the second call of parse ended
ReuseEnded ==
    /\ scenario.op = "reuse"
    /\ scenario.calls = 2
    /\ parse_call.status \in {"returned", "raised"}

\* C13: parsing a text with a decoder that parsed another text before gives
\* what a decoder as constructed gives for it: the schema is that of the
\* text's own ST01 and the delimiters are those of its own ISA header
C13_SecondParseAsFresh ==
    ReuseEnded => SameOutcome(Parse(ParserAtCall, scenario.second))

\* the same when the decoder holds no schema from the first text at the
\* second call
C13_HoldsWithoutAKeptFormat ==
    (ReuseEnded /\ (parser.edi_format = NoFormat
                    \/ parser.edi_format = Parse(ParserAtCall, scenario.second).p.edi_format))
        => SameOutcome(Parse(ParserAtCall, scenario.second))

-----------------------------------------------------------------------------
(* Specification SpecElement: EDIGenerator.build_element on one element    *)

\* the data types of the element: the types of X12, one no branch knows
\* ("B"), and the empty type of ISA16
ElementTypes ==
    {"AN", "ID", "R", "DT", "TM", "B", "", "N"} \cup {"N" \o ToString(k) : k \in 0..9}

\* the least and most lengths of the element
ElementLengths ==
    {<<0, 2>>, <<1, 3>>, <<2, 4>>, <<4, 4>>, <<4, 8>>, <<6, 6>>, <<6, 8>>, <<8, 8>>}

ElementFormats ==
    {Element("X01", "O", type, length[1], length[2]) :
        type \in ElementTypes, length \in ElementLengths}
    \cup {IsaSegment.elements[16]}

\* the values a caller supplies for the element
ElementValues ==
    PayValues \cup {StrV(<<"A", "B", "C", "D", "E">>), IntV(12), FloatV(12125)}

ElementInit ==
    \E e_format \in ElementFormats, e_data \in ElementValues :
        /\ supported_formats = <<>>
        /\ generator = NewGenerator
        /\ build_call = [status |-> "called", e_format |-> e_format, e_data |-> e_data,
                         output |-> <<>>]
        /\ parser = Idle
        /\ parse_call = Idle
        /\ validator = Idle
        /\ scenario = [op |-> "element"]

\* build_element returns the formatted element or raises
ElementCallEnds(r) ==
    /\ build_call' = [build_call EXCEPT !.status = IF r.raised THEN "raised" ELSE "returned",
                                        !.output = r.v]
    /\ generator' = r.g

\* build_element (lines 196-250)
CallBuildElement ==
    /\ scenario.op = "element"
    /\ build_call.status = "called"
    /\ ElementCallEnds(ElementResult(BuildElement(build_call.e_format, build_call.e_data),
                                     generator, build_call.e_format, build_call.e_data))
    /\ UNCHANGED <<supported_formats, parser, parse_call, validator, scenario>>

ElementNext == CallBuildElement

SpecElement == ElementInit /\ [][ElementNext]_vars

-----------------------------------------------------------------------------
(* Claims about one built element (SpecElement)                            *)

\* build_element returned the element built for a supplied value
ElementEmitted ==
    /\ scenario.op = "element"
    /\ build_call.status = "returned"
    /\ build_call.e_data.t # "none"

\* text is formatted, followed by spaces up to length.min when it is
\* shorter, and cut after length.max symbols when it is longer
PaddedThenCut(text, formatted, length) ==
    /\ Len(text) \in length.min..length.max
    /\ IF Len(formatted) >= length.max
       THEN \A i \in 1..length.max : text[i] = formatted[i]
       ELSE /\ StartsWith(text, formatted)
            /\ Len(text) = (IF Len(formatted) < length.min THEN length.min ELSE Len(formatted))
            /\ \A i \in (Len(formatted) + 1)..Len(text) : text[i] = " "

\* C15: every element emitted for a supplied value is its formatted text
\* padded with spaces on the right to length.min and then cut to length.max,
\* so its length lies between length.min and length.max; an emitted DT or TM
\* field has a length the schema declares
C15_EmittedElementFitsLength ==
    ElementEmitted =>
        PaddedThenCut(build_call.output,
                      FormatElement(build_call.e_format, build_call.e_data).v,
                      build_call.e_format.length)

\* a time of four symbols emitted for a TM element of length 6..6
C15_TimePaddedToSix ==
    /\ ElementEmitted
    /\ build_call.e_format.data_type = "TM"
    /\ build_call.e_format.length = [min |-> 6, max |-> 6]
    /\ Len(build_call.output) = 6
    /\ build_call.output[5] = " "

\* the digits of a value of m thousandths in units of 10^-k, without a radix
\* point, padded with zeros on the left to w symbols
ImpliedDecimal(m, w, k) ==
    IF k <= 3 THEN ZeroPad(NatToStr(RoundHalfEven(m * Pow10(k), 1000)), w)
    ELSE IF m = 0 THEN ZeroPad(<<"0">>, w)
    ELSE ZeroPad(NatToStr(m) \o Repeat("0", k - 3), w)

\* the element is of type Nk and its value is a number
NumberEmitted ==
    /\ ElementEmitted
    /\ NDecimals(build_call.e_format.data_type) >= 0

\* C20: an element of type Nk is emitted as the digits of its value scaled
\* by 10^k, padded with zeros on the left to length.min, without a radix
\* point, for k from 0 to 9
C20_ImpliedDecimalDigits ==
    NumberEmitted =>
        /\ \A i \in 1..Len(build_call.output) : build_call.output[i] # "."
        /\ build_call.output =
               PadAndTrim(ImpliedDecimal(ToFloat(build_call.e_data),
                                         build_call.e_format.length.min,
                                         NDecimals(build_call.e_format.data_type)),
                          build_call.e_format.length)

\* the same for k = 0, the one type whose format has no radix point
C20_HoldsForN0 ==
    (NumberEmitted /\ NDecimals(build_call.e_format.data_type) = 0) =>
        /\ \A i \in 1..Len(build_call.output) : build_call.output[i] # "."
        /\ build_call.output =
               PadAndTrim(ImpliedDecimal(ToFloat(build_call.e_data),
                                         build_call.e_format.length.min, 0),
                          build_call.e_format.length)

-----------------------------------------------------------------------------
(* supported_formats.py: the loader                                        *)
(* A schema file is held as json.load returns it: data_type_ids is a       *)
(* Python value, None, the name of a code list or the map of the codes.    *)

\* what a call of the loader leaves: the nodes as they are when it returns
\* or raises, and the exception
Loaded(v) == [raised |-> FALSE, error |-> "none", v |-> v]
LoadFailed(error, v) == [raised |-> TRUE, error |-> error, v |-> v]

\* copy.deepcopy(seg_data[0]) (line 49): the module imports os and json
\* only, so the name copy is looked up and not found
CopyDeepcopy(node) == LoadFailed("NameError", node)

\* segment.get('replacement', segment['id']) (line 43)
ReplacementId(segment) ==
    IF "replacement" \in DOMAIN segment THEN segment.replacement ELSE segment.id

\* seg_data is there, has a head, and the head has the id of the placeholder
\* (lines 44-47)
HasReplacement(registry, segment) ==
    /\ ReplacementId(segment) \in DOMAIN registry
    /\ Len(registry[ReplacementId(segment)]) >= 1
    /\ registry[ReplacementId(segment)][1].id = segment.id

OverridableValues == {"req", "max_uses", "repeat"}

\* the replacement with the values the placeholder gives (lines 52-54)
Overridden(replacement_segment, segment) ==
    [key \in DOMAIN replacement_segment \cup (DOMAIN segment \cap OverridableValues) |->
        IF key \in DOMAIN segment \cap OverridableValues
        THEN segment[key]
        ELSE replacement_segment[key]]

\* the node that takes the place of a placeholder (lines 43-54)
ReplacementFor(registry, segment) ==
    IF ~HasReplacement(registry, segment) THEN LoadFailed("ValueError", segment)
    ELSE LET copied == CopyDeepcopy(registry[ReplacementId(segment)][1])
         IN IF copied.raised THEN LoadFailed(copied.error, segment)
            ELSE Loaded(Overridden(copied.v, segment))

RECURSIVE ReplaceFormatSegmentPlaceholders(_, _, _)

\* the nodes from index on, once the node at index is settled
SegmentsAfter(registry, format_data, index, node) ==
    ReplaceFormatSegmentPlaceholders(registry, [format_data EXCEPT ![index] = node],
                                     index + 1)

\* the node at index is a loop: its segments are walked first (lines 58-63)
WithinLoop(registry, format_data, index, loop, inner) ==
    IF inner.raised THEN LoadFailed(inner.error, format_data)
    ELSE SegmentsAfter(registry, format_data, index, [loop EXCEPT !.segments = inner.v])

\* the node at index is a placeholder (lines 41-60)
AtPlaceholder(registry, format_data, index, replaced) ==
    IF replaced.raised THEN LoadFailed(replaced.error, format_data)
    ELSE IF replaced.v.type = "loop"
    THEN WithinLoop(registry, format_data, index, replaced.v,
                    ReplaceFormatSegmentPlaceholders(registry, replaced.v.segments, 1))
    ELSE SegmentsAfter(registry, format_data, index, replaced.v)

\* replace_format_segment_placeholders (lines 39-63) from the node at index
\* on.  Every raise of the walk comes before its first assignment, so a
\* failed walk leaves the nodes as they were
ReplaceFormatSegmentPlaceholders(registry, format_data, index) ==
    IF index > Len(format_data) THEN Loaded(format_data)
    ELSE IF format_data[index].type = "placeholder"
    THEN AtPlaceholder(registry, format_data, index,
                       ReplacementFor(registry, format_data[index]))
    ELSE IF format_data[index].type = "loop"
    THEN WithinLoop(registry, format_data, index, format_data[index],
                    ReplaceFormatSegmentPlaceholders(registry,
                                                     format_data[index].segments, 1))
    ELSE ReplaceFormatSegmentPlaceholders(registry, format_data, index + 1)

\* each.get('data_type', '').upper() (line 76); a composite has no data_type
UpperDataType(each) ==
    IF "data_type" \notin DOMAIN each THEN ""
    ELSE IF each.data_type = "id" THEN "ID"
    ELSE each.data_type

\* format_codes.get(data_type_ids, None) (line 80)
CodeData(format_codes, data_type_ids) ==
    IF SymbolsToStr(data_type_ids.s) \in DOMAIN format_codes
    THEN format_codes[SymbolsToStr(data_type_ids.s)]
    ELSE NoneV

\* the element names a code list (lines 76-79)
NamesCodeList(each) ==
    /\ UpperDataType(each) = "ID"
    /\ each.data_type_ids.t = "str"

RECURSIVE ReplaceElements(_, _, _)

\* for each in segment['elements'] (lines 75-86) from the element at index
\* on: the elements of the segment itself, never those of a composite.  The
\* raise of line 83 builds its message with "...". segment['id'], an
\* attribute of a str, so what is raised is AttributeError; the elements
\* assigned before stay assigned
ReplaceElements(format_codes, elements, index) ==
    IF index > Len(elements) THEN Loaded(elements)
    ELSE IF ~NamesCodeList(elements[index])
    THEN ReplaceElements(format_codes, elements, index + 1)
    ELSE IF ~Truthy(CodeData(format_codes, elements[index].data_type_ids))
    THEN LoadFailed("AttributeError", elements)
    ELSE ReplaceElements(
             format_codes,
             [elements EXCEPT ![index].data_type_ids =
                 CodeData(format_codes, elements[index].data_type_ids)],
             index + 1)

RECURSIVE ReplaceFormatElementPlaceholders(_, _, _)

\* the nodes from index on, once the node at index is walked, or the raise
\* of that walk with what it assigned
ElementsAfter(format_codes, format_data, index, node, inner) ==
    IF inner.raised THEN LoadFailed(inner.error, [format_data EXCEPT ![index] = node])
    ELSE ReplaceFormatElementPlaceholders(format_codes,
                                          [format_data EXCEPT ![index] = node], index + 1)

\* the node at index is a loop (lines 71-72)
LoopWalked(format_codes, format_data, index, inner) ==
    ElementsAfter(format_codes, format_data, index,
                  [format_data[index] EXCEPT !.segments = inner.v], inner)

\* the node at index is a segment (lines 74-86)
SegmentWalked(format_codes, format_data, index, inner) ==
    ElementsAfter(format_codes, format_data, index,
                  [format_data[index] EXCEPT !.elements = inner.v], inner)

\* replace_format_element_placeholders (lines 68-86) from the node at index on
ReplaceFormatElementPlaceholders(format_codes, format_data, index) ==
    IF index > Len(format_data) THEN Loaded(format_data)
    ELSE IF format_data[index].type = "loop"
    THEN LoopWalked(format_codes, format_data, index,
                    ReplaceFormatElementPlaceholders(format_codes,
                                                     format_data[index].segments, 1))
    ELSE IF format_data[index].type = "segment"
    THEN SegmentWalked(format_codes, format_data, index,
                       ReplaceElements(format_codes, format_data[index].elements, 1))
    ELSE ReplaceFormatElementPlaceholders(format_codes, format_data, index + 1)

-----------------------------------------------------------------------------
(* Specification SpecLoad: replace_segment_placeholders on a registry      *)

\* the name of the code list the schema files refer to
CodeListId == <<"6", "6">>

\* the code lists of formats/codes: the list is there, it is there without
\* codes, or no file has the name
CodeRegistries ==
    {(SymbolsToStr(CodeListId) :> DictV(<<<<"A", StrV(<<"a">>)>>>>)),
     (SymbolsToStr(CodeListId) :> DictV(<<>>)),
     [name \in {} |-> NoneV]}

\* an element of a schema file
FileElement(id, data_type, data_type_ids) ==
    [Element(id, "O", data_type, 1, 2) EXCEPT !.data_type_ids = data_type_ids]

\* the first elements of the segment N1: text, an id without a code list, and
\* ids that name the code list
FirstElements ==
    {FileElement("N101", "AN", NoneV), FileElement("N101", "ID", NoneV),
     FileElement("N101", "ID", StrV(CodeListId)),
     FileElement("N101", "id", StrV(CodeListId))}

\* its second elements: text, or a composite of text or of an id that names
\* the code list
SecondElements ==
    {FileElement("N102", "AN", NoneV),
     Composite("N102", "O", <<FileElement("N102-01", "AN", NoneV)>>),
     Composite("N102", "O", <<FileElement("N102-01", "ID", StrV(CodeListId))>>)}

N1Segments ==
    {Segment("N1", "M", 1, <<first, second>>, <<>>) :
        first \in FirstElements, second \in SecondElements}

\* placeholders for the segment N1: bare, with values of its own, and with a
\* replacement no file has
N1Placeholders ==
    {[type |-> "placeholder", id |-> "N1"],
     [type |-> "placeholder", id |-> "N1", req |-> "O", max_uses |-> 3],
     [type |-> "placeholder", id |-> "N1", replacement |-> "N1X"]}

\* the file L_N1 when there is one: a loop of the segment or of a placeholder
LoopFiles(n1) ==
    {<<Loop("L_N1", "M", 1, <<child>>)>> : child \in N1Placeholders \cup {n1}}

\* the transaction set: a first node for N1 and a loop, each written out or
\* left to a placeholder
LoadSets(n1) ==
    {<<first, loop>> :
        first \in N1Placeholders \cup {n1},
        loop \in {Loop("L_N1", "O", 2, <<child>>) : child \in N1Placeholders \cup {n1}}
                 \cup {[type |-> "placeholder", id |-> "L_N1", repeat |-> 5]}}


\* the registries load_supported_formats returns: the transaction set 810,
\* the file of the segment N1, and the file of the loop when there is one
LoadRegistries ==
    UNION {{("810" :> set) @@ ("N1" :> <<n1>>) : set \in LoadSets(n1)}
           \cup {("810" :> set) @@ ("N1" :> <<n1>>) @@ ("L_N1" :> file) :
                    set \in LoadSets(n1), file \in LoopFiles(n1)} :
           n1 \in N1Segments}

\* the orders in which os.listdir may give the files of a registry
ListingsOf(registry) ==
    {order \in [1..Cardinality(DOMAIN registry) -> DOMAIN registry] :
        \A i, j \in DOMAIN order : order[i] = order[j] => i = j}

LoadInit ==
    \E registry \in LoadRegistries, format_codes \in CodeRegistries :
      \E order \in ListingsOf(registry) :
        /\ supported_formats = registry
        /\ generator = Idle
        /\ build_call = Idle
        /\ parser = Idle
        /\ parse_call = Idle
        /\ validator = Idle
        /\ scenario = [op |-> "load", pass |-> "segments", next |-> 1, order |-> order,
                       format_codes |-> format_codes, loaded |-> registry,
                       error |-> "none"]

\* one format of a loop over supported_formats.items() is done: the nodes it
\* leaves are in the registry, and the loader goes on to the next format, to
\* what follows the loop, or ends with the exception
FormatDone(r, following) ==
    /\ supported_formats' = [supported_formats EXCEPT ![scenario.order[scenario.next]] = r.v]
    /\ scenario' =
         IF r.raised THEN [scenario EXCEPT !.pass = "raised", !.error = r.error]
         ELSE IF scenario.next < Len(scenario.order)
         THEN [scenario EXCEPT !.next = @ + 1]
         ELSE [scenario EXCEPT !.pass = following, !.next = 1]

\* one format of the first loop of replace_segment_placeholders (lines 29-30)
ReplaceSegmentPlaceholders ==
    /\ scenario.op = "load"
    /\ scenario.pass = "segments"
    /\ FormatDone(ReplaceFormatSegmentPlaceholders(
                      supported_formats, supported_formats[scenario.order[scenario.next]], 1),
                  "elements")
    /\ UNCHANGED <<generator, build_call, parser, parse_call, validator>>

\* one format of its second loop (lines 33-34)
ReplaceElementPlaceholders ==
    /\ scenario.op = "load"
    /\ scenario.pass = "elements"
    /\ FormatDone(ReplaceFormatElementPlaceholders(
                      scenario.format_codes,
                      supported_formats[scenario.order[scenario.next]], 1),
                  "done")
    /\ UNCHANGED <<generator, build_call, parser, parse_call, validator>>

LoadNext == ReplaceSegmentPlaceholders \/ ReplaceElementPlaceholders

SpecLoad == LoadInit /\ [][LoadNext]_vars

-----------------------------------------------------------------------------
(* Claims about the loader (SpecLoad)                                      *)

\* the loader returned or raised
LoadEnded == scenario.op = "load" /\ scenario.pass \in {"done", "raised"}

\* the formats of the registry as they were loaded and as they are now
Formats == {<<scenario.loaded[name], supported_formats[name]>> : name \in DOMAIN scenario.loaded}

RECURSIVE NoPlaceholderIn(_)

\* no node of the list is a placeholder, at any depth
NoPlaceholderIn(format_data) ==
    \A i \in 1..Len(format_data) :
        /\ format_data[i].type # "placeholder"
        /\ format_data[i].type = "loop" => NoPlaceholderIn(format_data[i].segments)

RECURSIVE Resolvable(_, _)

\* every placeholder of the list names a file whose head has its id, in the
\* loops of the list and in the loops the placeholders stand for
Resolvable(registry, format_data) ==
    \A i \in 1..Len(format_data) :
        /\ format_data[i].type = "placeholder" =>
               /\ HasReplacement(registry, format_data[i])
               /\ registry[ReplacementId(format_data[i])][1].type = "loop" =>
                      Resolvable(registry, registry[ReplacementId(format_data[i])][1].segments)
        /\ format_data[i].type = "loop" => Resolvable(registry, format_data[i].segments)

\* the node that took the place of a placeholder has its id and the values
\* the placeholder gave
CarriesValues(placeholder, node) ==
    /\ node.id = placeholder.id
    /\ \A key \in DOMAIN placeholder \cap OverridableValues :
           key \in DOMAIN node /\ node[key] = placeholder[key]

RECURSIVE ReplacedAsAsked(_, _)

\* the nodes of after stand where the nodes of before stood, and those that
\* took the place of a placeholder carry its values
ReplacedAsAsked(before, after) ==
    /\ Len(after) = Len(before)
    /\ \A i \in 1..Len(before) :
           /\ before[i].type = "placeholder" => CarriesValues(before[i], after[i])
           /\ (before[i].type = "loop" /\ after[i].type = "loop") =>
                  ReplacedAsAsked(before[i].segments, after[i].segments)

\* the first loop of the loader raised
SegmentPassFailed == scenario.error \in {"NameError", "ValueError"}

\* C17: after the loader has run on a registry whose placeholders all name
\* a file, no placeholder remains at any depth of any format, and every
\* node that replaced a placeholder carries the placeholder's own req,
\* max_uses and repeat where it gave them
C17_NoPlaceholderRemains ==
    (LoadEnded /\ \A name \in DOMAIN scenario.loaded :
                     Resolvable(scenario.loaded, scenario.loaded[name]))
        => /\ ~SegmentPassFailed
           /\ \A format \in Formats :
                  NoPlaceholderIn(format[2]) /\ ReplacedAsAsked(format[1], format[2])

\* the same for a registry that has no placeholder
C17_HoldsWithoutPlaceholders ==
    (LoadEnded /\ \A name \in DOMAIN scenario.loaded : NoPlaceholderIn(scenario.loaded[name]))
        => /\ ~SegmentPassFailed
           /\ \A format \in Formats :
                  NoPlaceholderIn(format[2]) /\ ReplacedAsAsked(format[1], format[2])

RECURSIVE ElementsResolved(_, _)

\* every id element of before that names a code list holds the map of that
\* name in after, in the composites too, and no element of after holds a name
ElementsResolved(before, after) ==
    \A i \in 1..Len(before) :
        IF before[i].type = "composite"
        THEN ElementsResolved(before[i].elements, after[i].elements)
        ELSE /\ after[i].data_type_ids.t # "str"
             /\ NamesCodeList(before[i]) =>
                    after[i].data_type_ids = CodeData(scenario.format_codes,
                                                      before[i].data_type_ids)

RECURSIVE CodeListsResolved(_, _)

\* the same for the segments of a list of nodes, at any depth
CodeListsResolved(before, after) ==
    \A i \in 1..Len(before) :
        /\ before[i].type = "segment" =>
               ElementsResolved(before[i].elements, after[i].elements)
        /\ before[i].type = "loop" =>
               CodeListsResolved(before[i].segments, after[i].segments)

\* C18: after the loader has run, every id element that named a code list
\* holds the map of that name, directly in a segment or in a composite, and
\* no data_type_ids of the registry is a name
C18_CodeListsResolved ==
    (scenario.op = "load" /\ scenario.pass = "done")
        => \A format \in Formats : CodeListsResolved(format[1], format[2])

\* the elements of a list that are no composites
Direct(elements) == SelectSeq(elements, LAMBDA each : each.type # "composite")

RECURSIVE DirectElementsResolved(_, _)

\* the same for the elements that stand directly in a segment
DirectElementsResolved(before, after) ==
    \A i \in 1..Len(before) :
        /\ before[i].type = "segment" =>
               ElementsResolved(Direct(before[i].elements), Direct(after[i].elements))
        /\ before[i].type = "loop" =>
               DirectElementsResolved(before[i].segments, after[i].segments)

C18_HoldsForDirectElements ==
    (scenario.op = "load" /\ scenario.pass = "done")
        => \A format \in Formats : DirectElementsResolved(format[1], format[2])

-----------------------------------------------------------------------------
(* Specification SpecControl: EDIUtils.create_control_number               *)

\* the largest value and the most places a caller asks for
MaxValue == 120
MaxPlaces == 2

\* int(value / 10 ** max_places) + (value % 10 ** max_places) (line 203);
\* the float quotient of the values of the model is exact enough for int()
\* to give the integer quotient
CreateControlNumber(value, max_places) ==
    (value \div Pow10(max_places)) + (value % Pow10(max_places))

ControlInit ==
    \E value \in 0..MaxValue, max_places \in 1..MaxPlaces :
        /\ supported_formats = <<>>
        /\ generator = Idle
        /\ build_call = Idle
        /\ parser = Idle
        /\ parse_call = Idle
        /\ validator = Idle
        /\ scenario = [op |-> "control", status |-> "called", value |-> value,
                       max_places |-> max_places, result |-> 0]

\* create_control_number(value, max_places) returns
CallCreateControlNumber ==
    /\ scenario.op = "control"
    /\ scenario.status = "called"
    /\ scenario' = [scenario EXCEPT
                      !.status = "returned",
                      !.result = CreateControlNumber(scenario.value, scenario.max_places)]
    /\ UNCHANGED <<supported_formats, generator, build_call, parser, parse_call, validator>>

ControlNext == CallCreateControlNumber

SpecControl == ControlInit /\ [][ControlNext]_vars

-----------------------------------------------------------------------------
(* Claims about create_control_number (SpecControl)                        *)

ControlReturned == scenario.op = "control" /\ scenario.status = "returned"

\* C25: for a value that is no negative integer and max_places of at least
\* one, create_control_number returns an integer from 0 that is less than
\* 10^max_places: it has at most max_places digits
C25_ControlNumberFitsPlaces ==
    ControlReturned =>
        /\ scenario.result >= 0
        /\ scenario.result < Pow10(scenario.max_places)

\* what holds: the result is not negative, and a value of at most
\* max_places digits is returned as it is
C25_HoldsWithinThePlaces ==
    ControlReturned =>
        /\ scenario.result >= 0
        /\ scenario.value < Pow10(scenario.max_places) => scenario.result = scenario.value

-----------------------------------------------------------------------------
(* Specification SpecConvert: EDIConverter.to_element_list and then        *)
(* to_element_dict on a map-shaped document                                *)

\* the most entries of the repeating segment REF in a document
MaxConverted == 2

\* the values of a leading element: null, empty, zero, and values that are
\* none of these
LeadingValues == {NoneV, StrV(<<>>), IntV(0), StrV(<<"A">>), IntV(5)}

\* the values of the element after it
SecondValues == {NoneV, StrV(<<"B">>)}

\* a segment map keyed SSS01..SSSnn in positional order
SegmentMapOf(id, values) ==
    DictV([i \in 1..Len(values) |-> <<ElementName(id, i), values[i]>>])

RefMaps ==
    {SegmentMapOf("REF", <<first, second>>) :
        first \in LeadingValues, second \in SecondValues}

\* the lists of the repeating segment
RefLists == UNION {[1..k -> RefMaps] : k \in 1..MaxConverted}

\* the documents: a segment at the top level, a list of a repeating segment,
\* and a loop of one iteration with one segment
ConvertDocuments ==
    {DictV(<<<<"ST", SegmentMapOf("ST", <<st01, StrV(<<"1">>)>>)>>,
             <<"REF", ListV(refs)>>,
             <<"L_N1", ListV(<<DictV(<<<<"N1", SegmentMapOf("N1", <<n101>>)>>>>)>>)>>>>) :
        st01 \in LeadingValues, refs \in RefLists, n101 \in LeadingValues}

ConvertInit ==
    \E input_data \in ConvertDocuments :
        /\ supported_formats = <<>>
        /\ generator = Idle
        /\ build_call = Idle
        /\ parser = Idle
        /\ parse_call = Idle
        /\ validator = Idle
        /\ scenario = [op |-> "convert", status |-> "called", input_data |-> input_data,
                       element_list |-> NoneV, element_dict |-> NoneV]

\* EDIConverter.to_element_list(input_data)
CallToElementList ==
    /\ scenario.op = "convert"
    /\ scenario.status = "called"
    /\ LET r == ToElementList(scenario.input_data)
       IN scenario' = IF r.raised THEN [scenario EXCEPT !.status = "raised"]
                      ELSE [scenario EXCEPT !.status = "listed", !.element_list = r.v]
    /\ UNCHANGED <<supported_formats, generator, build_call, parser, parse_call, validator>>

\* EDIConverter.to_element_dict(element_list)
CallToElementDict ==
    /\ scenario.op = "convert"
    /\ scenario.status = "listed"
    /\ LET r == ToElementDict(scenario.element_list, "")
       IN scenario' = IF r = RaisedV THEN [scenario EXCEPT !.status = "raised"]
                      ELSE [scenario EXCEPT !.status = "returned", !.element_dict = r]
    /\ UNCHANGED <<supported_formats, generator, build_call, parser, parse_call, validator>>

ConvertNext == CallToElementList \/ CallToElementDict

SpecConvert == ConvertInit /\ [][ConvertNext]_vars

-----------------------------------------------------------------------------
(* Claims about the conversions (SpecConvert)                              *)

ConvertEnded == scenario.op = "convert" /\ scenario.status \in {"returned", "raised"}

\* C26: to_element_dict gives back the document to_element_list was given,
\* for its segments at the top level, in the list of a repeating segment and
\* in the iteration of a loop, whatever the values of the elements are, the
\* null, empty and zero ones too
C26_DictOfListIsDocument ==
    ConvertEnded =>
        /\ scenario.status = "returned"
        /\ scenario.element_dict = scenario.input_data

\* some element of the segment map has a value that Python takes as true
HasTrueValue(seg_data) == \E i \in 1..Len(seg_data.items) : Truthy(seg_data.items[i][2])

\* what holds: the document comes back when every segment map that is an
\* entry of the repeating segment's list has such a value; the segments a
\* map holds under their ids, at the top level and in the iteration of the
\* loop, come back whatever their values are
C26_HoldsWithATrueValue ==
    (ConvertEnded /\ \A i \in 1..Len(Get(scenario.input_data, "REF").l) :
                        HasTrueValue(Get(scenario.input_data, "REF").l[i]))
        => /\ scenario.status = "returned"
           /\ scenario.element_dict = scenario.input_data

-----------------------------------------------------------------------------
(* Specification SpecPairs: EDIParser.parse_set_group on a group whose ST  *)
(* and SE segments come in any order                                       *)

\* the most segments between GS and GE
MaxPaired == 4

\* the segments a group is made of
PairLines ==
    {Line("ST", <<TsId, <<"1">>>>), Line("SE", <<<<"2">>>>), Line("N1", <<<<"A">>>>)}

PairBodies == UNION {[1..k -> PairLines] : k \in 0..MaxPaired}

\* the counts a GE segment gives
PairCounts == 0..2

PairsInit ==
    \E lines \in PairBodies, count \in PairCounts :
        /\ supported_formats = Registry(3)
        /\ generator = Idle
        /\ build_call = Idle
        /\ parser = NewParser(TsKey)
        /\ parse_call = [status |-> "called",
                         data |-> Stream(Grouped(lines, count)),
                         edi_segments |-> <<>>, st_indicies |-> <<>>,
                         next |-> 1, edi_sets |-> <<>>]
        /\ validator = Idle
        /\ scenario = [op |-> "set_group", lines |-> lines, count |-> count,
                       edi_format |-> TsKey]

PairsNext == SetTransSetSpecified \/ SetGroupBegin \/ SetGroupParse \/ SetGroupReturn

SpecPairs == PairsInit /\ [][PairsNext]_vars

-----------------------------------------------------------------------------
(* Claims about the sub-streams of parse_set_group (SpecPairs)             *)

\* parse_set_group is about to hand a sub-stream to parse_segments
HandsOver ==
    /\ parse_call.status = "looping"
    /\ parse_call.next <= Len(parse_call.st_indicies)

\* the sub-stream it hands over (line 119)
HandedOver ==
    StSegment(parse_call.edi_segments,
              parse_call.st_indicies[1][1],
              parse_call.st_indicies[parse_call.next],
              parse_call.st_indicies[Len(parse_call.st_indicies)][2])

\* the positions of the segments of the id in a list of segments
Named(edi_segments, id) ==
    {i \in 1..Len(edi_segments) : SegmentName(parser, edi_segments[i]) = id}

\* the least and the greatest of a set of positions that is not empty
Least(positions) == CHOOSE i \in positions : \A j \in positions : i <= j
Greatest(positions) == CHOOSE i \in positions : \A j \in positions : i >= j

\* the segments from an ST through the SE that follows it: one transaction set
IsOneSet(edi_segments, st, se) ==
    /\ st < se
    /\ Named(edi_segments, "ST") \cap st..se = {st}
    /\ Named(edi_segments, "SE") \cap st..se = {se}

\* sub is what lies before the first ST of the stream, one transaction set
\* of it, and what lies after its last SE
AroundOneSet(sub, edi_segments) ==
    /\ Named(edi_segments, "ST") # {}
    /\ Named(edi_segments, "SE") # {}
    /\ \E st \in Named(edi_segments, "ST"), se \in Named(edi_segments, "SE") :
           /\ IsOneSet(edi_segments, st, se)
           /\ sub = SubSeq(edi_segments, 1, Least(Named(edi_segments, "ST")) - 1)
                    \o SubSeq(edi_segments, st, se)
                    \o SubSeq(edi_segments, Greatest(Named(edi_segments, "SE")) + 1,
                              Len(edi_segments))

\* sub has one ST and one SE, the ST before the SE
OneStBeforeOneSe(sub) ==
    /\ Cardinality(Named(sub, "ST")) = 1
    /\ Cardinality(Named(sub, "SE")) = 1
    /\ \A st \in Named(sub, "ST"), se \in Named(sub, "SE") : st < se

\* C23: every sub-stream parse_set_group hands to parse_segments is the
\* segments before the first ST, then one transaction set from its ST
\* through the SE that follows it, then the segments after the last SE, and
\* it has exactly one ST and one SE, the ST before the SE
C23_SubStreamAroundOneSet ==
    (scenario.op = "set_group" /\ HandsOver) =>
        /\ AroundOneSet(HandedOver, parse_call.edi_segments)
        /\ OneStBeforeOneSe(HandedOver)

\* the ST and SE segments of the stream take turns, an ST first and an SE last
TakeTurns(edi_segments) ==
    LET marks == SelectSeq(SegmentNames(parser, edi_segments),
                           LAMBDA name : name \in {"ST", "SE"})
    IN /\ Len(marks) % 2 = 0
       /\ \A i \in 1..Len(marks) : marks[i] = (IF i % 2 = 1 THEN "ST" ELSE "SE")

\* the same for a stream whose ST and SE segments take turns
C23_HoldsWhenPairsTakeTurns ==
    (scenario.op = "set_group" /\ HandsOver /\ TakeTurns(parse_call.edi_segments)) =>
        /\ AroundOneSet(HandedOver, parse_call.edi_segments)
        /\ OneStBeforeOneSe(HandedOver)

-----------------------------------------------------------------------------
(* Specification SpecSeparator: one EDIGenerator building an ISA segment   *)
(* and segments with a composite element, one after the other              *)

\* the most segments one generator builds
MaxCalls == 3

\* the values of ISA16
SeparatorValues == {StrV(<<":">>), StrV(<<">">>)}

\* a segment whose second element is a composite of two sub-elements
CompositeSegment ==
    Segment("REF", "O", 1,
            <<Element("REF01", "O", "AN", 1, 2),
              Composite("C040", "O", <<Element("C04001", "O", "AN", 1, 2),
                                       Element("C04002", "O", "AN", 1, 2)>>)>>,
            <<>>)

\* the sub-element values of the composite
ComponentDatas ==
    {<<StrV(<<"X">>), StrV(<<"Y">>)>>, <<StrV(<<"X">>)>>, <<NoneV, StrV(<<"Y">>)>>}

IsaCall(value) ==
    [segment |-> IsaSegment,
     segment_data |-> [i \in 1..16 |-> IF i = 16 THEN value ELSE StrV(<<"0">>)]]

CompositeCall(components) ==
    [segment |-> CompositeSegment,
     segment_data |-> <<StrV(<<"A">>), DictV(<<<<"C040", ListV(components)>>>>)>>]

\* the segment without a value for its composite
PlainCall == [segment |-> CompositeSegment, segment_data |-> <<StrV(<<"A">>)>>]

SeparatorCalls ==
    {IsaCall(value) : value \in SeparatorValues}
    \cup {CompositeCall(components) : components \in ComponentDatas}
    \cup {PlainCall}

SeparatorInit ==
    \E calls \in UNION {[1..k -> SeparatorCalls] : k \in 1..MaxCalls} :
        /\ supported_formats = <<>>
        /\ generator = NewGenerator
        /\ build_call = [status |-> "ready", calls |-> calls, outputs |-> <<>>]
        /\ parser = Idle
        /\ parse_call = Idle
        /\ validator = Idle
        /\ scenario = [op |-> "separator"]

\* the next call of build_segment ends with the result r; a caller that
\* catches the exception goes on with the same generator
NextSegmentEnds(r) ==
    /\ build_call' = [build_call EXCEPT
                        !.outputs = Append(@, [raised |-> r.raised, v |-> r.v])]
    /\ generator' = r.g

\* EDIGenerator.build_segment on the next segment
CallBuildNextSegment ==
    /\ scenario.op = "separator"
    /\ Len(build_call.outputs) < Len(build_call.calls)
    /\ LET call == build_call.calls[Len(build_call.outputs) + 1]
       IN NextSegmentEnds(BuildSegment(generator, call.segment, call.segment_data))
    /\ UNCHANGED <<supported_formats, parser, parse_call, validator, scenario>>

SeparatorNext == CallBuildNextSegment

SpecSeparator == SeparatorInit /\ [][SeparatorNext]_vars

-----------------------------------------------------------------------------
(* Claims about the component-element separator of the encoder             *)
(* (SpecSeparator)                                                         *)

\* the calls that emitted an ISA segment
IsaEmitted ==
    {i \in 1..Len(build_call.outputs) :
        /\ build_call.calls[i].segment.id = "ISA"
        /\ ~build_call.outputs[i].raised}

\* the first character of the ISA16 value of the call
Isa16Of(i) == <<PyStr(build_call.calls[i].segment_data[16])[1]>>

\* the calls after the call i up to the next ISA segment emitted
AfterIsa(i) ==
    {j \in (i + 1)..Len(build_call.outputs) : IsaEmitted \cap (i + 1)..j = {}}

\* the call was given a value for the composite
GivesComposite(j) ==
    /\ build_call.calls[j].segment = CompositeSegment
    /\ Len(build_call.calls[j].segment_data) > 1

\* the call emitted a segment with its composite
CompositeEmitted(j) == GivesComposite(j) /\ ~build_call.outputs[j].raised

\* the sub-elements of the composite of the call, each formatted by
\* build_element
FormattedComponents(j) ==
    LET components == build_call.calls[j].segment_data[2].items[1][2].l
        formats == CompositeSegment.elements[2].elements
    IN [k \in 1..Len(components) |-> BuildElement(formats[k], components[k]).v]

\* the line of the call with its sub-elements joined by c
JoinedBy(j, c) ==
    Join(<<<<"REF">>, <<"A">>, Join(FormattedComponents(j), c)>>, <<"^">>)

\* the ISA segment of the call i is the latest one emitted
LatestIsa(i) == i \in IsaEmitted /\ \A k \in IsaEmitted : k <= i

\* C21: after an ISA segment with the ISA16 value c was emitted, c is the
\* encoder's component-element separator and no other delimiter has changed,
\* and every composite emitted afterwards has its formatted sub-elements
\* joined by c
C21_SeparatorRecordedAndUsed ==
    scenario.op = "separator" =>
        \A i \in IsaEmitted :
            /\ LatestIsa(i) =>
                   /\ generator.component_element_delimiter = Isa16Of(i)
                   /\ generator.element_delimiter = NewGenerator.element_delimiter
                   /\ generator.segment_delimiter = NewGenerator.segment_delimiter
                   /\ generator.data_delimiter = NewGenerator.data_delimiter
            /\ \A j \in AfterIsa(i) :
                   CompositeEmitted(j) =>
                       build_call.outputs[j].v = JoinedBy(j, Isa16Of(i))

\* what the encoder does record: c becomes its data delimiter, and the
\* element and segment delimiters stay
C21_RecordedAsDataDelimiter ==
    scenario.op = "separator" =>
        \A i \in IsaEmitted :
            LatestIsa(i) =>
                /\ generator.data_delimiter = Isa16Of(i)
                /\ generator.component_element_delimiter = Unset
                /\ generator.element_delimiter = NewGenerator.element_delimiter
                /\ generator.segment_delimiter = NewGenerator.segment_delimiter

\* no segment is emitted with a composite, before an ISA segment or after
C21_NoCompositeEmitted ==
    scenario.op = "separator" =>
        \A j \in 1..Len(build_call.outputs) : ~CompositeEmitted(j)

-----------------------------------------------------------------------------
(* Specification SpecDelimiters: EDIParser.parse on streams written with   *)
(* different delimiters                                                    *)

\* the longest segment terminator of a stream
MaxTerminator == 4

ElementSeparators == {"^", "*"}
RepetitionSeparators == {"U", Grave}
ComponentSeparators == {":", ">"}

\* segment terminators: a character, a line break, a character and a line
\* break, and two where more follows the character than one line break
Terminators ==
    {t \in {<<"~">>, <<"\n">>, <<"~", "\n">>, <<"~", "\r", "\n">>, <<"\r", "\n">>,
            <<"~", "\r", "\n", "\n">>, <<"~", " ", "\n">>} : Len(t) <= MaxTerminator}

\* the transaction set in its envelope, with a composite in REF
DelimiterSet ==
    <<IsaSegment, GsSegment, Schema810(2)[1], CompositeSegment, Schema810(2)[4],
      GeSegment, IeaSegment>>

DelimiterRegistry ==
    (TsKey :> DelimiterSet) @@ ("IEA" :> <<IeaSegment>>) @@ ("SE" :> <<Schema810(2)[4]>>)

\* the segments of the stream, their elements separated by e and the
\* sub-elements of the composite by c
DelimitedLines(e, rep, c) ==
    <<Join(<<<<"ISA">>>> \o [i \in 1..16 |-> IF i = 11 THEN <<rep>>
                                              ELSE IF i = 16 THEN <<c>> ELSE <<"0">>],
           <<e>>),
      <<"GS", e, "G">>,
      <<"ST", e>> \o TsId \o <<e, "1">>,
      <<"REF", e, "A", e, "X", c, "Y">>,
      <<"SE", e, "2">>,
      <<"GE", e, "1">>,
      <<"IEA", e, "1">>>>

DelimitersInit ==
    \E e \in ElementSeparators, rep \in RepetitionSeparators,
       c \in ComponentSeparators, t \in Terminators :
        /\ supported_formats = DelimiterRegistry
        /\ generator = Idle
        /\ build_call = Idle
        /\ parser = NewParser("")
        /\ parse_call = [status |-> "called",
                         data |-> Join(DelimitedLines(e, rep, c), t) \o t,
                         walk |-> NewWalk(<<>>)]
        /\ validator = Idle
        /\ scenario = [op |-> "parse", without |-> <<>>,
                       lines |-> DelimitedLines(e, rep, c)]

DelimitersNext == SetTransSetSpecified \/ ParseBegin \/ ParseWalkStep \/ ParseReturn

SpecDelimiters == DelimitersInit /\ [][DelimitersNext]_vars

-----------------------------------------------------------------------------
(* Claims about the delimiters of the decoder (SpecDelimiters)             *)

\* parse_isa_header has read the header of the text, which begins with ISA
HeaderRead ==
    /\ scenario.op = "parse"
    /\ parse_call.status # "called"

\* the fields of the header: the text split by its 4th character, which is
\* the symbol after the id ISA
HeaderFields == Split(parse_call.data, <<parse_call.data[2]>>)

\* the line break characters a text begins with
RECURSIVE LineBreaks(_)
LineBreaks(text) ==
    IF text # <<>> /\ IsCrLf(Head(text)) THEN <<Head(text)>> \o LineBreaks(Tail(text))
    ELSE <<>>

\* the second character of the field and the line break characters that
\* immediately follow it
TerminatorOf(field) == <<field[2]>> \o LineBreaks(Drop(field, 2))

\* the parser holds the delimiters of the header
DelimitersOfHeader ==
    /\ parser.element_delimiter = <<parse_call.data[2]>>
    /\ parser.data_delimiter = HeaderFields[12]
    /\ parser.component_element_delimiter = <<HeaderFields[17][1]>>
    /\ parser.segment_delimiter = TerminatorOf(HeaderFields[17])

\* the REF segment of the streams as a document holds it
RefParsed ==
    DictV(<<<<"REF01", StrV(<<"A">>)>>,
            <<"C040", DictV(<<<<"C04001", StrV(<<"X">>)>>,
                              <<"C04002", StrV(<<"Y">>)>>>>)>>>>)

\* the segments and the composite were split with the delimiters of the header
SplitByHeader ==
    parse_call.status = "returned" =>
        /\ parse_call.walk.found_segments = <<"ISA", "GS", "ST", "REF", "SE", "GE", "IEA">>
        /\ Has(parse_call.walk.to_return, "REF")
        /\ Get(parse_call.walk.to_return, "REF") = RefParsed

\* C22: parse takes the element separator from the 4th character of the
\* text, the repetition separator from ISA field 11, the component separator
\* from the first character of field 16 and the segment terminator from the
\* second character of field 16 and the line break characters that
\* immediately follow it, and splits the segments and composites of the text
\* with these
C22_DelimitersFromHeader ==
    HeaderRead => DelimitersOfHeader /\ SplitByHeader

\* at most two line break characters follow the second character of field
\* 16, and nothing stands between it and them
UsualTerminator(field) ==
    /\ Len(LineBreaks(Drop(field, 2))) <= 2
    /\ \A i \in 3..4 : (i <= Len(field) /\ IsCrLf(field[i])) =>
                           i <= 2 + Len(LineBreaks(Drop(field, 2)))

\* the same for the streams with such a terminator, which are all parsed
C22_HoldsForUsualTerminators ==
    (scenario.op = "parse" /\ UsualTerminator(HeaderFields[17])) =>
        /\ HeaderRead => DelimitersOfHeader /\ SplitByHeader
        /\ parser.trans_set_specified = "false" => parse_call.status # "raised"

-----------------------------------------------------------------------------
(* Specification SpecLoop: the while loop of EDIParser.parse_loop, pass by *)
(* pass                                                                    *)

\* the most segments that follow the head segment of the loop
MaxFollowing == 3

\* the passes of the while loop that are followed
MaxPasses == 6

N1Format == Segment("N1", "M", 1, <<Element("N101", "M", "AN", 1, 2)>>, <<>>)
N2Format == Segment("N2", "O", 1, <<Element("N201", "O", "AN", 1, 2)>>, <<>>)
N3Format == Segment("N3", "O", 1, <<Element("N301", "O", "AN", 1, 2)>>, <<>>)
RefFormat == Segment("REF", "O", 2, <<Element("REF01", "M", "AN", 1, 2)>>, <<>>)

\* loops whose children are segments, a repeating segment, a nested loop
\* that begins with the segment it is named after, and a nested loop L_N2
\* that has no child N2
LoopFormats ==
    {Loop("L_N1", "O", 2, <<N1Format, N2Format>>),
     Loop("L_N1", "O", 2, <<N1Format, RefFormat, N2Format>>),
     Loop("L_N1", "O", 2, <<N1Format, Loop("L_N2", "O", 2, <<N2Format, N3Format>>)>>),
     Loop("L_N1", "O", 2, <<N1Format, Loop("L_N2", "O", 2, <<N3Format>>)>>)}

\* the segments that follow the head of the loop
LoopLines ==
    {Line("N1", <<<<"B">>>>), Line("N2", <<<<"A", "2">>>>), Line("N3", <<<<"C">>>>),
     Line("REF", <<<<"R", "A">>>>), Line("SE", <<<<"2">>>>)}

\* parse_loop is called on segments whose head is named as the loop is
LoopInputs ==
    {<<Line("N1", <<<<"A">>>>)>> \o following :
        following \in UNION {[1..k -> LoopLines] : k \in 0..MaxFollowing}}

\* what the last pass found: its head segment, the id it stored the segment
\* under, whether loop_dict held data, and the lengths of loop_list and
\* edi_segments
NoPass == [head |-> <<>>, name |-> "", held |-> FALSE, lists |-> 0, before |-> 0]

LoopInit ==
    \E loop_format \in LoopFormats, edi_segments \in LoopInputs :
        /\ supported_formats = Registry(3)
        /\ generator = Idle
        /\ build_call = Idle
        /\ parser = NewParser("")
        /\ parse_call = [status |-> "looping", input |-> edi_segments,
                         edi_segments |-> edi_segments,
                         loop_list |-> <<>>, loop_dict |-> DictV(<<>>), passes |-> 0]
        /\ validator = Idle
        /\ scenario = [op |-> "loop", loop_format |-> loop_format, last |-> NoPass]

\* the test that ties off the iteration (line 337)
BeginsAtFirstChild(loop_format, loop_dict, s) ==
    s.name = loop_format.segments[1].id

BeginsIteration(loop_format, loop_dict, s) ==
    s.name = loop_format.segments[1].id /\ loop_dict.items # <<>>

\* return loop_list, edi_segments (lines 342-344)
LoopReturns(c, r) ==
    [c EXCEPT !.status = "returned", !.loop_list = r.v, !.edi_segments = r.rest]

\* the end of one pass of the while loop on the search result s
\* (lines 334-341)
LoopPass(loop_format, c, s) ==
    IF s.raised THEN [c EXCEPT !.status = "raised"]
    ELSE IF s.obj.t = "none"
    THEN LoopReturns(c, LoopEnd(c.loop_list, c.loop_dict, c.edi_segments))
    ELSE IF BeginsIteration(loop_format, c.loop_dict, s)
    THEN [c EXCEPT !.edi_segments = s.rest,
                   !.loop_list = Append(@, c.loop_dict),
                   !.loop_dict = Put(DictV(<<>>), s.name, s.obj),
                   !.passes = @ + 1]
    ELSE [c EXCEPT !.edi_segments = s.rest,
                   !.loop_dict = Put(@, s.name, s.obj),
                   !.passes = @ + 1]

\* the search of the pass (lines 314-332)
LoopSearch(p, loop_format, edi_segments) ==
    TryFormats(p, Head(edi_segments),
               Search(SegmentName(p, Head(edi_segments)), NoneV, edi_segments),
               loop_format.segments)

\* what the pass on the search result s leaves for the claims to look at
Passed(c, s) ==
    [head |-> Head(c.edi_segments), name |-> s.name,
     held |-> c.loop_dict.items # <<>>,
     lists |-> Len(c.loop_list), before |-> Len(c.edi_segments)]

\* one pass of the while loop of parse_loop (lines 313-341)
ParseLoopPass ==
    /\ scenario.op = "loop"
    /\ parse_call.status = "looping"
    /\ parse_call.edi_segments # <<>>
    /\ parse_call.passes < MaxPasses
    /\ LET s == LoopSearch(parser, scenario.loop_format, parse_call.edi_segments)
       IN /\ parse_call' = LoopPass(scenario.loop_format, parse_call, s)
          /\ scenario' = [scenario EXCEPT !.last = Passed(parse_call, s)]
    /\ UNCHANGED <<supported_formats, generator, build_call, parser, validator>>

\* the while loop ends for want of segments (lines 313, 342-344)
ParseLoopReturn ==
    /\ scenario.op = "loop"
    /\ parse_call.status = "looping"
    /\ parse_call.edi_segments = <<>>
    /\ parse_call' = LoopReturns(parse_call,
                                 LoopEnd(parse_call.loop_list, parse_call.loop_dict, <<>>))
    /\ UNCHANGED <<supported_formats, generator, build_call, parser, validator, scenario>>

LoopNext == ParseLoopPass \/ ParseLoopReturn

SpecLoop == LoopInit /\ [][LoopNext]_vars

-----------------------------------------------------------------------------
(* Claims about the passes of parse_loop (SpecLoop)                        *)

\* a pass has stored a segment and the loop goes on
PassStored ==
    /\ scenario.op = "loop"
    /\ parse_call.status = "looping"
    /\ parse_call.passes > 0

LoopReturned == scenario.op = "loop" /\ parse_call.status = "returned"

\* the pass began a new iteration: it tied off the one before
BeganIteration == Len(parse_call.loop_list) = scenario.last.lists + 1

\* the segment matches a child of the loop
MatchesChild(segment) ==
    \E i \in 1..Len(scenario.loop_format.segments) :
        Matches(scenario.loop_format.segments[i], SegmentName(parser, segment))

\* the segments the loop has consumed
Consumed == Len(parse_call.input) - Len(parse_call.edi_segments)

\* C24: a pass of parse_loop begins a new iteration exactly when the
\* segment it matched has the id of the first child of the loop and the
\* current iteration already holds data; the loop ends at the first segment
\* that matches no child, and returns that segment and all after it
\* unconsumed and in their order
C24_IterationsAndEndOfLoop ==
    /\ PassStored =>
           /\ MatchesChild(scenario.last.head)
           /\ BeganIteration <=>
                  /\ scenario.last.name = scenario.loop_format.segments[1].id
                  /\ scenario.last.held
           /\ ~BeganIteration => Len(parse_call.loop_list) = scenario.last.lists
    /\ LoopReturned =>
           /\ parse_call.edi_segments
                  = SubSeq(parse_call.input, Consumed + 1, Len(parse_call.input))
           /\ parse_call.edi_segments # <<>> => ~MatchesChild(parse_call.edi_segments[1])

\* a second iteration was begun and the loop ended before a segment
C24_SecondIterationAndRest ==
    /\ LoopReturned
    /\ Len(parse_call.loop_list) = 2
    /\ parse_call.edi_segments # <<>>

\* every nested loop of the loop has a child named as the loop is
ChildrenMatch(loop_format) ==
    \A i \in 1..Len(loop_format.segments) :
        loop_format.segments[i].type = "loop" =>
            \E j \in 1..Len(loop_format.segments[i].segments) :
                IsListType(loop_format.segments[i].id,
                           loop_format.segments[i].segments[j].id)

\* the passes end as the whole of parse_loop does
C24_PassesAreParseLoop ==
    (LoopReturned /\ ChildrenMatch(scenario.loop_format)) =>
        LOk(parse_call.loop_list, parse_call.edi_segments)
            = ParseLoop(parser, parse_call.input, scenario.loop_format)

\* C27: every pass of the walk that goes on removes at least one segment
\* from the remaining input, also when it entered a loop whose children do
\* not match the head segment
C27_EveryPassRemovesASegment ==
    PassStored => Len(parse_call.edi_segments) < scenario.last.before

\* the same for the loops whose nested loops have a child named as they are
C27_HoldsWhenChildrenMatch ==
    (scenario.op = "loop" /\ ChildrenMatch(scenario.loop_format)) =>
        /\ PassStored => Len(parse_call.edi_segments) < scenario.last.before
        /\ parse_call.passes <= Len(parse_call.input)

====
